---- MODULE Spec2Model ----
(***************************************************************************)
(* Identifier resolution of the iKanban command line client and MCP       *)
(* server (src/mcp/ikanban.py): team / project alias resolution and the   *)
(* issue-key resolver with its single collaborator request.               *)
(*                                                                         *)
(* A Python string is a sequence of one-character strings, so that        *)
(* lower(), strip(), count(), len() and the regular expression are        *)
(* computed character by character.  Python's None is the value None      *)
(* below, which is no string (its only element is not a character).       *)
(*                                                                         *)
(* Further sections model the other scripts, each under a specification   *)
(* of its own: the command line of turso_sync.py (TursoSpec), the SQL     *)
(* tools of db_server.py (DbSpec), ClaudeSetup of claude_setup.py         *)
(* (SetupSpec) and the vibe-check command line (VibeSpec).                 *)
(***************************************************************************)
EXTENDS Integers, Sequences, FiniteSets, TLC

VARIABLES call, api_reply, outcome, server, pc, stdin, line, stdout,
          turso, db, setup, vibe

\* the state of one call of a function, command or tool
call_vars == <<call, api_reply, outcome>>
\* the state of an MCP server loop
mcp_vars == <<server, pc, stdin, line, stdout>>
\* the state of a run of turso_sync.py, of a tool of db_server.py, of
\* claude_setup.py and of vibe-check
script_vars == <<turso, db, setup, vibe>>
vars == <<call, api_reply, outcome, server, pc, stdin, line, stdout, turso, db, setup, vibe>>

----------------------------------------------------------------------------
(* Bounds of the model *)

\* longest run of digits in a generated task reference
MaxDigits == 2
\* longest issue list the collaborator returns
MaxIssues == 2
\* most whitespace characters put around a generated reference
MaxPad == 1
\* leading letters of a word that are tried in both letter cases
MaxCased == 3

----------------------------------------------------------------------------
(* Python values and string methods *)

None == <<"None">>

UPPERCASE == <<"A", "B", "C", "D", "E", "F", "G", "H", "I", "J", "K", "L", "M", "N", "O", "P", "Q", "R", "S", "T", "U", "V", "W", "X", "Y", "Z">>
LOWERCASE == <<"a", "b", "c", "d", "e", "f", "g", "h", "i", "j", "k", "l", "m", "n", "o", "p", "q", "r", "s", "t", "u", "v", "w", "x", "y", "z">>
DIGITS == <<"0", "1", "2", "3", "4", "5", "6", "7", "8", "9">>
WHITESPACE == {" ", "\t", "\n", "\r"}

Range(f) == {f[i] : i \in DOMAIN f}

UpperChars == Range(UPPERCASE)
LowerChars == Range(LOWERCASE)
DigitSet == Range(DIGITS)
\* the letter of the other case, and the value of a digit
TO_LOWER == [c \in UpperChars |-> LOWERCASE[CHOOSE i \in 1..26 : UPPERCASE[i] = c]]
TO_UPPER == [c \in LowerChars |-> UPPERCASE[CHOOSE i \in 1..26 : LOWERCASE[i] = c]]
DIGIT_VALUE == [c \in DigitSet |-> (CHOOSE i \in 1..10 : DIGITS[i] = c) - 1]

IsUpper(c) == c \in UpperChars
IsLower(c) == c \in LowerChars
IsAlpha(c) == IsUpper(c) \/ IsLower(c)
IsDigit(c) == c \in DigitSet

char_lower(c) == IF IsUpper(c) THEN TO_LOWER[c] ELSE c
char_upper(c) == IF IsLower(c) THEN TO_UPPER[c] ELSE c

\* str.lower() / str.upper()
str_lower(s) == [i \in 1..Len(s) |-> char_lower(s[i])]
str_upper(s) == [i \in 1..Len(s) |-> char_upper(s[i])]

\* str.count(c) for a one-character c
str_count(s, c) == Cardinality({i \in 1..Len(s) : s[i] = c})

\* str.startswith(p)
str_startswith(s, p) == Len(s) >= Len(p) /\ SubSeq(s, 1, Len(p)) = p

SetMin(S) == CHOOSE x \in S : \A y \in S : x <= y
SetMax(S) == CHOOSE x \in S : \A y \in S : x >= y

\* str.strip(): leading and trailing whitespace removed
str_strip(s) ==
    LET keep == {i \in 1..Len(s) : s[i] \notin WHITESPACE}
    IN  IF keep = {} THEN <<>> ELSE SubSeq(s, SetMin(keep), SetMax(keep))

\* int(digits) for a non-empty run of decimal digits
RECURSIVE py_int(_)
py_int(d) ==
    IF Len(d) = 0 THEN 0
    ELSE 10 * py_int(SubSeq(d, 1, Len(d) - 1)) + DIGIT_VALUE[d[Len(d)]]

\* str(n) for n >= 0, as an f-string formats an int
RECURSIVE py_str(_)
py_str(n) ==
    IF n < 10 THEN <<DIGITS[n + 1]>>
    ELSE py_str(n \div 10) \o <<DIGITS[(n % 10) + 1]>>

\* "not x" for x a string or None
Falsy(x) == x = None \/ x = <<>>

\* dict.get(key, default)
DictGet(d, key, default) == IF key \in DOMAIN d THEN d[key] ELSE default

----------------------------------------------------------------------------
(* Configuration tables of ikanban.py *)

IKA_TEAM_ID == <<"a", "2", "6", "3", "e", "4", "3", "f", "-", "4", "3", "d", "3", "-", "4", "a", "f", "7", "-", "a", "9", "4", "7", "-", "5", "f", "7", "0", "e", "6", "6", "7", "0", "9", "2", "1">>
SCH_TEAM_ID == <<"a", "2", "f", "2", "2", "d", "e", "b", "-", "9", "0", "1", "e", "-", "4", "3", "6", "b", "-", "9", "7", "5", "5", "-", "6", "4", "4", "c", "b", "2", "6", "7", "5", "3", "b", "7">>
IKA_FRONTEND_ID == <<"f", "f", "8", "9", "e", "c", "e", "5", "-", "e", "b", "4", "9", "-", "4", "d", "8", "b", "-", "a", "3", "4", "9", "-", "4", "f", "c", "2", "2", "7", "7", "7", "3", "c", "b", "c">>
SCH_BACKEND_ID == <<"e", "c", "3", "6", "4", "e", "4", "9", "-", "b", "6", "2", "0", "-", "4", "8", "e", "1", "-", "9", "d", "d", "1", "-", "8", "7", "4", "4", "e", "a", "e", "d", "b", "5", "e", "2">>
SCH_FRONTEND_ID == <<"a", "0", "8", "3", "8", "6", "8", "6", "-", "0", "c", "5", "6", "-", "4", "4", "9", "2", "-", "b", "f", "6", "d", "-", "6", "5", "8", "4", "7", "4", "5", "1", "4", "9", "6", "a">>
SCH_DATA_LAYER_ID == <<"2", "0", "f", "9", "8", "0", "e", "2", "-", "9", "c", "d", "8", "-", "4", "2", "7", "d", "-", "a", "1", "1", "f", "-", "9", "9", "c", "b", "f", "f", "3", "1", "a", "c", "a", "d">>
SCH_TEMPORAL_ID == <<"0", "e", "a", "3", "c", "b", "c", "6", "-", "1", "1", "c", "3", "-", "4", "d", "6", "8", "-", "b", "b", "9", "9", "-", "7", "4", "9", "3", "a", "4", "0", "d", "e", "8", "3", "3">>
SCH_ELEVENLABS_ID == <<"e", "0", "9", "6", "9", "7", "e", "8", "-", "c", "6", "0", "5", "-", "4", "6", "a", "0", "-", "9", "d", "b", "c", "-", "8", "7", "7", "9", "1", "8", "f", "d", "c", "a", "0", "8">>
SCH_INFRA_ID == <<"b", "4", "0", "b", "5", "e", "c", "a", "-", "1", "8", "5", "6", "-", "4", "b", "6", "9", "-", "9", "2", "8", "f", "-", "0", "e", "c", "3", "e", "c", "d", "2", "7", "3", "7", "b">>
USE_DYNAMIC_LOOKUP == <<"u", "s", "e", "-", "d", "y", "n", "a", "m", "i", "c", "-", "l", "o", "o", "k", "u", "p">>

KNOWN_TEAMS ==
    (<<"i", "k", "a", "n", "b", "a", "n">> :> IKA_TEAM_ID)
    @@ (<<"s", "c", "h", "i", "l", "d">> :> SCH_TEAM_ID)
    @@ (<<"i", "k", "a">> :> IKA_TEAM_ID)
    @@ (<<"s", "c", "h">> :> SCH_TEAM_ID)

TEAM_DEFAULT_PROJECTS ==
    (IKA_TEAM_ID :> IKA_FRONTEND_ID) @@ (SCH_TEAM_ID :> SCH_BACKEND_ID)

IKA_PROJECTS ==
    (<<"f", "r", "o", "n", "t", "e", "n", "d">> :> IKA_FRONTEND_ID)
    @@ (<<"b", "a", "c", "k", "e", "n", "d">> :> USE_DYNAMIC_LOOKUP)
    @@ (<<"i", "n", "t", "e", "g", "r", "a", "t", "i", "o", "n">> :> USE_DYNAMIC_LOOKUP)

SCH_PROJECTS ==
    (<<"b", "a", "c", "k", "e", "n", "d">> :> SCH_BACKEND_ID)
    @@ (<<"f", "r", "o", "n", "t", "e", "n", "d">> :> SCH_FRONTEND_ID)
    @@ (<<"d", "a", "t", "a", "-", "l", "a", "y", "e", "r">> :> SCH_DATA_LAYER_ID)
    @@ (<<"t", "e", "m", "p", "o", "r", "a", "l">> :> SCH_TEMPORAL_ID)
    @@ (<<"e", "l", "e", "v", "e", "n", "l", "a", "b", "s">> :> SCH_ELEVENLABS_ID)
    @@ (<<"i", "n", "f", "r", "a">> :> SCH_INFRA_ID)

STATUSES ==
    <<<<"t", "o", "d", "o">>, <<"i", "n", "p", "r", "o", "g", "r", "e", "s", "s">>,
      <<"i", "n", "r", "e", "v", "i", "e", "w">>, <<"d", "o", "n", "e">>,
      <<"c", "a", "n", "c", "e", "l", "l", "e", "d">>>>

PRIORITIES ==
    (<<"n", "o", "n", "e">> :> 0)
    @@ (<<"u", "r", "g", "e", "n", "t">> :> 1)
    @@ (<<"h", "i", "g", "h">> :> 2)
    @@ (<<"m", "e", "d", "i", "u", "m">> :> 3)
    @@ (<<"l", "o", "w">> :> 4)

----------------------------------------------------------------------------
(* Literals of the messages and endpoints *)

UUID_LEN == 36
UUID_HYPHENS == 4
EXIT_FAILURE == 1

MSG_TASK_ID_REQUIRED == <<"T", "a", "s", "k", " ", "I", "D", " ", "i", "s", " ", "r", "e", "q", "u", "i", "r", "e", "d">>
MSG_UNKNOWN_TEAM == <<"U", "n", "k", "n", "o", "w", "n", " ", "t", "e", "a", "m", ":", " ">>
MSG_USE_IKA_OR_SCH == <<".", " ", "U", "s", "e", " ", "I", "K", "A", " ", "o", "r", " ", "S", "C", "H", ".">>
MSG_FAILED_TO_FETCH == <<"F", "a", "i", "l", "e", "d", " ", "t", "o", " ", "f", "e", "t", "c", "h", " ", "i", "s", "s", "u", "e", "s", ":", " ">>
MSG_ISSUE == <<"I", "s", "s", "u", "e", " ">>
MSG_NOT_FOUND == <<" ", "n", "o", "t", " ", "f", "o", "u", "n", "d">>
MSG_HTTP == <<"H", "T", "T", "P", " ">>
MSG_COLON == <<":", " ">>
MSG_CONNECTION_ERROR == <<"C", "o", "n", "n", "e", "c", "t", "i", "o", "n", " ", "e", "r", "r", "o", "r", ":", " ">>
USE_PREFIX == <<"u", "s", "e", "-">>
PATH_TEAMS == <<"/", "t", "e", "a", "m", "s", "/">>
PATH_ISSUES == <<"/", "i", "s", "s", "u", "e", "s">>

----------------------------------------------------------------------------
(* The collaborator: what one HTTP request to the REST API comes back with. *)
(*   ok          HTTP 200 with a JSON envelope; has_data tells whether the *)
(*               envelope has a "data" key, data is the issue list         *)
(*   http_error  HTTPError with status code and body; message is the       *)
(*               "message" field of a JSON body, None when there is none   *)
(*   url_error   URLError, body is its reason                              *)
(*   raise       any exception urlopen/json.loads raises that api_request  *)
(*               does not catch (read timeout, invalid JSON)               *)

\* issue_number of an issue that has none (JSON null); never equal to a parsed number
NullNumber == -1

Reply(kind, code, body, message, has_data, data) ==
    [kind |-> kind, code |-> code, body |-> body, message |-> message,
     has_data |-> has_data, data |-> data]

\* the value api_request returns: a JSON object with the keys it has
Dict(keys, error, data) == [keys |-> keys, error |-> error, data |-> data]

Outcome(kind, value, stderr, requests, steps) ==
    [kind |-> kind, value |-> value, stderr |-> stderr,
     exit_code |-> IF kind \in {"exit", "raise"} THEN EXIT_FAILURE ELSE 0,
     requests |-> requests, steps |-> steps]

\* api_request that sends the request a second time when the first one failed
api_request_Retry(endpoint, exit_on_error, reply) ==
    LET req == <<[method |-> "GET", endpoint |-> endpoint]>>
    IN  CASE reply.kind = "ok" ->
               Outcome("return",
                       Dict({"success"} \cup (IF reply.has_data THEN {"data"} ELSE {}),
                            None, reply.data),
                       None, req, {})
          [] reply.kind \in {"http_error", "url_error"} ->
               LET err == IF reply.kind = "url_error" THEN MSG_CONNECTION_ERROR \o reply.body
                          ELSE MSG_HTTP \o py_str(reply.code) \o MSG_COLON
                               \o (IF reply.message # None THEN reply.message ELSE reply.body)
               IN  IF exit_on_error
                   THEN Outcome("exit", None, err, req \o req, {})
                   ELSE Outcome("return", Dict({"success", "error"}, err, <<>>), None, req \o req, {})
          [] OTHER -> Outcome("raise", None, None, req \o req, {})

\* api_request(endpoint, method="GET", data=None, exit_on_error): one urlopen
api_request(endpoint, exit_on_error, reply) ==
    LET req == <<[method |-> "GET", endpoint |-> endpoint]>>
    IN  CASE reply.kind = "ok" ->
               Outcome("return",
                       Dict({"success"} \cup (IF reply.has_data THEN {"data"} ELSE {}),
                            None, reply.data),
                       None, req, {})
          [] reply.kind = "http_error" ->
               LET msg == IF reply.message # None THEN reply.message ELSE reply.body
                   err == MSG_HTTP \o py_str(reply.code) \o MSG_COLON \o msg
               IN  IF exit_on_error
                   THEN Outcome("exit", None, err, req, {})
                   ELSE Outcome("return", Dict({"success", "error"}, err, <<>>), None, req, {})
          [] reply.kind = "url_error" ->
               LET err == MSG_CONNECTION_ERROR \o reply.body
               IN  IF exit_on_error
                   THEN Outcome("exit", None, err, req, {})
                   ELSE Outcome("return", Dict({"success", "error"}, err, <<>>), None, req, {})
          [] OTHER -> Outcome("raise", None, None, req, {})

----------------------------------------------------------------------------
(* Alias resolution *)

\* the lookup without lower-casing
resolve_team_id_CaseSensitive(team_ref) ==
    IF Falsy(team_ref) THEN None
    ELSE DictGet(KNOWN_TEAMS, team_ref, team_ref)

\* the lookup that falls back to the lower-cased reference
resolve_team_id_ReturnsLower(team_ref) ==
    IF Falsy(team_ref) THEN None
    ELSE LET lower_ref == str_lower(team_ref)
         IN  DictGet(KNOWN_TEAMS, lower_ref, lower_ref)

resolve_team_id(team_ref) ==
    IF Falsy(team_ref) THEN None
    ELSE LET lower_ref == str_lower(team_ref)
         IN  DictGet(KNOWN_TEAMS, lower_ref, team_ref)

\* the default lookup that falls back to the reference it was given
resolve_project_id_DefaultFallsBack(project_ref, team_id) ==
    IF Falsy(project_ref)
    THEN DictGet(TEAM_DEFAULT_PROJECTS, team_id, project_ref)
    ELSE LET lower_ref == str_lower(project_ref)
         IN  IF team_id = IKA_TEAM_ID
             THEN IF lower_ref \in DOMAIN IKA_PROJECTS
                     /\ ~str_startswith(IKA_PROJECTS[lower_ref], USE_PREFIX)
                  THEN IKA_PROJECTS[lower_ref]
                  ELSE project_ref
             ELSE IF team_id = SCH_TEAM_ID /\ lower_ref \in DOMAIN SCH_PROJECTS
                  THEN SCH_PROJECTS[lower_ref]
                  ELSE project_ref

\* the lookup that searches the alias tables of both teams, whatever team is given
resolve_project_id_AnyTeam(project_ref, team_id) ==
    IF Falsy(project_ref)
    THEN IF ~Falsy(team_id) THEN DictGet(TEAM_DEFAULT_PROJECTS, team_id, None) ELSE None
    ELSE LET lower_ref == str_lower(project_ref)
         IN  IF lower_ref \in DOMAIN IKA_PROJECTS
                /\ ~str_startswith(IKA_PROJECTS[lower_ref], USE_PREFIX)
             THEN IKA_PROJECTS[lower_ref]
             ELSE IF lower_ref \in DOMAIN SCH_PROJECTS
                  THEN SCH_PROJECTS[lower_ref]
                  ELSE project_ref

resolve_project_id(project_ref, team_id) ==
    IF Falsy(project_ref)
    THEN IF ~Falsy(team_id) THEN DictGet(TEAM_DEFAULT_PROJECTS, team_id, None) ELSE None
    ELSE LET lower_ref == str_lower(project_ref)
         IN  IF team_id = IKA_TEAM_ID
             THEN IF lower_ref \in DOMAIN IKA_PROJECTS
                     /\ ~str_startswith(IKA_PROJECTS[lower_ref], USE_PREFIX)
                  THEN IKA_PROJECTS[lower_ref]
                  ELSE project_ref
             ELSE IF team_id = SCH_TEAM_ID /\ lower_ref \in DOMAIN SCH_PROJECTS
                  THEN SCH_PROJECTS[lower_ref]
                  ELSE project_ref

----------------------------------------------------------------------------
(* Issue-key resolution *)

\* A match of <letters>+ <hyphens> <digits>+ "$" against s from its start, with
\* between min_hyphens and max_hyphens hyphens; lower_only tells whether the
\* letter class is [a-z] or [a-zA-Z].  The letter run is greedy and
\* no letter is a hyphen or a digit, so group 1 is the longest letter prefix;
\* "$" also matches before one final newline.
match_letters_hyphens_digits(s, lower_only, min_hyphens, max_hyphens) ==
    LET n == Len(s)
        k == SetMax({0} \cup {i \in 1..n : \A j \in 1..i :
                                    IF lower_only THEN IsLower(s[j]) ELSE IsAlpha(s[j])})
        h == SetMax({0} \cup {i \in 1..(n - k) : \A j \in 1..i : s[k + j] = "-"})
        d == k + h + 1
        e == IF n >= 1 /\ s[n] = "\n" THEN n - 1 ELSE n
        ok == /\ k >= 1 /\ h >= min_hyphens /\ h <= max_hyphens
              /\ d <= e /\ \A j \in d..e : IsDigit(s[j])
    IN  IF ok THEN [matched |-> TRUE, group1 |-> SubSeq(s, 1, k), group2 |-> SubSeq(s, d, e)]
        ELSE [matched |-> FALSE, group1 |-> <<>>, group2 |-> <<>>]

\* the pattern with the hyphen not optional
re_match_issue_key_HyphenRequired(s) == match_letters_hyphens_digits(s, FALSE, 1, 1)
\* the pattern with [a-z] for the letter group
re_match_issue_key_LowerOnly(s) == match_letters_hyphens_digits(s, TRUE, 0, 1)
\* the pattern with -* for the hyphen
re_match_issue_key_ManyHyphens(s) == match_letters_hyphens_digits(s, FALSE, 0, UUID_LEN)

\* re.match(r'^([a-zA-Z]+)-?(\d+)$', s)
re_match_issue_key(s) == match_letters_hyphens_digits(s, FALSE, 0, 1)

\* the scan that keeps the last issue with the number
find_issue_LastHit(issues, issue_number) ==
    LET hits == {i \in 1..Len(issues) : issues[i].issue_number = issue_number}
    IN  IF hits = {} THEN None ELSE issues[SetMax(hits)].id

\* the scan of the issue list: id of the first issue with the number, None if none
find_issue(issues, issue_number) ==
    LET hits == {i \in 1..Len(issues) : issues[i].issue_number = issue_number}
    IN  IF hits = {} THEN None ELSE issues[SetMin(hits)].id

\* the shape test with the hyphens of a UUID miscounted
IsUuidShaped_WrongHyphens(task_ref) ==
    Len(task_ref) = UUID_LEN /\ str_count(task_ref, "-") = UUID_HYPHENS + 1

IsUuidShaped(task_ref) ==
    Len(task_ref) = UUID_LEN /\ str_count(task_ref, "-") = UUID_HYPHENS

\* the message with the team key as parsed, not upper-cased
issue_not_found_message_NoUpper(team_key, issue_number) ==
    MSG_ISSUE \o team_key \o <<"-">> \o py_str(issue_number) \o MSG_NOT_FOUND

\* the message of line 314
issue_not_found_message(team_key, issue_number) ==
    MSG_ISSUE \o str_upper(team_key) \o <<"-">> \o py_str(issue_number) \o MSG_NOT_FOUND

\* lines 307-315: the issue list is scanned for the number
resolve_task_id_scan(team_key, issue_number, r, found) ==
    IF found # None
    THEN Outcome("return", found, None, r.requests, {"regex", "alias", "fetch"})
    ELSE Outcome("exit", None, issue_not_found_message(team_key, issue_number),
                 r.requests, {"regex", "alias", "fetch"})

\* lines 304-315: r is what api_request came back with
resolve_task_id_fetched(team_key, issue_number, r) ==
    IF r.kind # "return"
    THEN Outcome(r.kind, None, r.stderr, r.requests, {"regex", "alias", "fetch"})
    ELSE IF "error" \in r.value.keys
    THEN Outcome("exit", None, MSG_FAILED_TO_FETCH \o r.value.error,
                 r.requests, {"regex", "alias", "fetch"})
    ELSE resolve_task_id_scan(team_key, issue_number, r,
                              find_issue(IF "data" \in r.value.keys THEN r.value.data ELSE <<>>,
                                         issue_number))

\* lines 298-315: team_id is the entry of KNOWN_TEAMS for the team key
resolve_task_id_team(team_key, issue_number, team_id, reply) ==
    IF Falsy(team_id)
    THEN Outcome("exit", None,
                 MSG_UNKNOWN_TEAM \o str_upper(team_key) \o MSG_USE_IKA_OR_SCH,
                 <<>>, {"regex", "alias"})
    ELSE resolve_task_id_fetched(team_key, issue_number,
                                 api_request(PATH_TEAMS \o team_id \o PATH_ISSUES, FALSE, reply))

\* lines 294-315: team_key and issue_number are the groups of the match
resolve_task_id_key(team_key, issue_number, reply) ==
    resolve_task_id_team(team_key, issue_number, DictGet(KNOWN_TEAMS, team_key, None), reply)

\* lines 289-315: match is the result of re.match
resolve_task_id_matched(task_ref, match, reply) ==
    IF ~match.matched
    THEN Outcome("return", task_ref, None, <<>>, {"regex"})
    ELSE resolve_task_id_key(str_lower(match.group1), py_int(match.group2), reply)

\* steps records which parts of the function ran: "regex" (line 289),
\* "alias" (line 298), "fetch" (line 304)
resolve_task_id(task_ref, reply) ==
    IF Falsy(task_ref)
    THEN Outcome("exit", None, MSG_TASK_ID_REQUIRED, <<>>, {})
    ELSE IF IsUuidShaped(task_ref)
    THEN Outcome("return", task_ref, None, <<>>, {})
    ELSE resolve_task_id_matched(task_ref, re_match_issue_key(str_strip(task_ref)), reply)

----------------------------------------------------------------------------
(* Inputs and collaborator replies the model draws from *)

\* spellings of w in upper and lower case letters: each of its first MaxCased
\* letters in either case with the rest in lower case, and w all in upper case
CaseVariants(w) ==
    {[i \in 1..Len(w) |-> IF i <= MaxCased /\ up[i] THEN char_upper(w[i]) ELSE char_lower(w[i])] :
        up \in [1..MaxCased -> BOOLEAN]}
    \cup {str_upper(w)}

Spaces(n) == [i \in 1..n |-> " "]
Fill(n, c) == [i \in 1..n |-> c]

\* whitespace before and after a reference, MaxPad characters in all
PadPairs ==
    {<<Spaces(lr[1]), Spaces(lr[2])>> :
        lr \in {x \in (0..MaxPad) \X (0..MaxPad) : x[1] + x[2] <= MaxPad}}

Padded(S) == {pr[1] \o s \o pr[2] : pr \in PadPairs, s \in S}

DigitChars == {"0", "7"}
DigitStrings == UNION {[1..n -> DigitChars] : n \in 1..MaxDigits}

TEAM_IKA == <<"i", "k", "a">>
TEAM_SCH == <<"s", "c", "h">>
TEAM_XYZ == <<"x", "y", "z">>

\* letter groups of the generated task references
TaskLetterGroups ==
    CaseVariants(TEAM_IKA)
    \cup {TEAM_SCH, str_upper(TEAM_SCH), TEAM_XYZ, str_upper(TEAM_XYZ)}
    \cup {<<"i", "k", "a", "n", "b", "a", "n">>, <<"s", "c", "h", "i", "l", "d">>,
          <<"S", "c", "h", "i", "l", "d">>}

Separators == {<<>>, <<"-">>, <<"-", "-">>}

KeyLike ==
    {g \o sep \o d : g \in TaskLetterGroups, sep \in Separators,
                     d \in DigitStrings \cup {<<>>}}

\* long references around the UUID shape: 35 to 37 characters, 1 to 5 hyphens
LongHeads ==
    {<<"-", "-", "-">>, <<"-", "-", "-", "-">>, <<"-", "-", "-", "-", "-">>,
     <<" ", "-", "-", "-", "-">>, <<"i", "k", "a", "-">>,
     <<"I", "K", "A", "-", "7", "-", "-", "-">>}
LongRefs ==
    {h \o Fill(n - Len(h), c) : h \in LongHeads, n \in {UUID_LEN - 1, UUID_LEN, UUID_LEN + 1},
                                c \in {"0", "A"}}
    \cup {IKA_TEAM_ID, str_upper(IKA_TEAM_ID), SCH_TEAM_ID, IKA_FRONTEND_ID}

TaskRefs == {None, <<>>} \cup Padded(KeyLike) \cup LongRefs

TeamRefs ==
    {None, <<>>}
    \cup Padded(UNION {CaseVariants(k) : k \in DOMAIN KNOWN_TEAMS \cup {TEAM_XYZ}})
    \cup LongRefs

\* lower case, upper case and capitalised
SomeCases(w) == {str_lower(w), str_upper(w), <<char_upper(w[1])>> \o SubSeq(str_lower(w), 2, Len(w))}

ProjectRefs ==
    {None, <<>>}
    \cup UNION {SomeCases(k) : k \in DOMAIN IKA_PROJECTS \cup DOMAIN SCH_PROJECTS \cup {TEAM_XYZ}}
    \cup {IKA_FRONTEND_ID, SCH_INFRA_ID}

TeamIds == {None, <<>>, IKA_TEAM_ID, SCH_TEAM_ID, IKA_FRONTEND_ID, TEAM_IKA, str_upper(IKA_TEAM_ID)}

Issue(id, n) == [id |-> id, issue_number |-> n]
Issues == {Issue(<<"X">>, 7), Issue(<<"Y">>, 7), Issue(<<"Y">>, 70), Issue(<<"Z">>, NullNumber)}
IssueLists == UNION {[1..n -> Issues] : n \in 0..MaxIssues}

HTTP_NOT_FOUND == 404
HTTP_SERVER_ERROR == 500
TEXT_GONE == <<"g", "o", "n", "e">>
TEXT_OOPS == <<"o", "o", "p", "s">>
TEXT_REFUSED == <<"r", "e", "f", "u", "s", "e", "d">>

NoReply == Reply("none", 0, None, None, FALSE, <<>>)

Replies ==
    {Reply("ok", 200, None, None, TRUE, l) : l \in IssueLists}
    \cup {Reply("ok", 200, None, None, FALSE, <<>>),
          Reply("http_error", HTTP_NOT_FOUND, <<"{", "}">>, TEXT_GONE, FALSE, <<>>),
          Reply("http_error", HTTP_SERVER_ERROR, TEXT_OOPS, None, FALSE, <<>>),
          Reply("url_error", 0, TEXT_REFUSED, None, FALSE, <<>>),
          Reply("raise", 0, None, None, FALSE, <<>>)}

----------------------------------------------------------------------------
(* Priority parsing *)
(* A priority argument is a Python value of one of three types: argparse     *)
(* hands over a str or None, a JSON tool argument is an int, a str or None.  *)

PyNone == [t |-> "NoneType", v |-> 0]
PyInt(n) == [t |-> "int", v |-> n]
PyStr(s) == [t |-> "str", v |-> s]

\* the digits of an int() literal body, underscores removed; <<>> when the body
\* is not digits with single underscores between them
literal_digits(body) ==
    IF /\ Len(body) > 0
       /\ \A i \in 1..Len(body) : IsDigit(body[i]) \/ body[i] = "_"
       /\ IsDigit(body[1]) /\ IsDigit(body[Len(body)])
       /\ \A i \in 1..(Len(body) - 1) : ~(body[i] = "_" /\ body[i + 1] = "_")
    THEN SelectSeq(body, IsDigit)
    ELSE <<>>

\* int(s) for a string s: surrounding whitespace is ignored, then an optional
\* sign and decimal digits; ok is FALSE where int raises ValueError
int_of_str(s) ==
    LET body == str_strip(s)
        signed == Len(body) > 0 /\ body[1] \in {"+", "-"}
        digits == literal_digits(IF signed THEN SubSeq(body, 2, Len(body)) ELSE body)
    IN  IF digits = <<>> THEN [ok |-> FALSE, n |-> 0]
        ELSE [ok |-> TRUE,
              n |-> IF signed /\ body[1] = "-" THEN 0 - py_int(digits) ELSE py_int(digits)]

\* parse_priority that looks the name up without lower-casing it
parse_priority_CaseSensitive(priority_str) ==
    IF priority_str = PyNone THEN PyNone
    ELSE IF priority_str.t = "int" THEN priority_str
    ELSE IF priority_str.v \in DOMAIN PRIORITIES THEN PyInt(PRIORITIES[priority_str.v])
    ELSE LET parsed == int_of_str(priority_str.v)
         IN  IF parsed.ok THEN PyInt(parsed.n) ELSE PyNone

\* ikanban.py
parse_priority(priority_str) ==
    IF priority_str = PyNone THEN PyNone
    ELSE IF priority_str.t = "int" THEN priority_str
    ELSE LET lower == str_lower(priority_str.v)
         IN  IF lower \in DOMAIN PRIORITIES THEN PyInt(PRIORITIES[lower])
             ELSE LET parsed == int_of_str(priority_str.v)
                  IN  IF parsed.ok THEN PyInt(parsed.n) ELSE PyNone

\* server.py
server_parse_priority(priority_val) ==
    IF priority_val = PyNone THEN PyNone
    ELSE IF priority_val.t = "int" THEN priority_val
    ELSE IF priority_val.t = "str"
    THEN LET lower == str_lower(priority_val.v)
         IN  IF lower \in DOMAIN PRIORITIES THEN PyInt(PRIORITIES[lower])
             ELSE LET parsed == int_of_str(priority_val.v)
                  IN  IF parsed.ok THEN PyInt(parsed.n) ELSE PyNone
    ELSE PyNone

\* cli.py
cli_parse_priority(priority_str) ==
    IF priority_str = PyNone THEN PyNone
    ELSE IF priority_str.t = "int" THEN priority_str
    ELSE LET lower == str_lower(priority_str.v)
         IN  IF lower \in DOMAIN PRIORITIES THEN PyInt(PRIORITIES[lower])
             ELSE LET parsed == int_of_str(priority_str.v)
                  IN  IF parsed.ok THEN PyInt(parsed.n) ELSE PyNone

\* the three copies of the function
ParsePriorityOf(file, p) ==
    CASE file = "ikanban.py" -> parse_priority(p)
      [] file = "server.py" -> server_parse_priority(p)
      [] file = "cli.py" -> cli_parse_priority(p)

SourceFiles == {"ikanban.py", "server.py", "cli.py"}

PriorityStrings ==
    UNION {SomeCases(k) : k \in DOMAIN PRIORITIES}
    \cup {<<>>, <<"0">>, <<"3">>, <<"4">>, <<"5">>, <<"7">>, <<"0", "3">>, <<"1", "0">>,
          <<" ", "2">>, <<"2", "\n">>, <<"+", "2">>, <<"-", "1">>, <<"-">>, <<"1", "_", "0">>,
          <<"_", "1">>, <<"1", "_", "_", "0">>, <<"3", ".", "0">>, <<"2", " ", "2">>,
          <<"h", "i">>, <<"h", "i", "g", "h", " ">>, <<" ", "l", "o", "w">>,
          <<"N", "o", "n", "e">> \o <<"!">>, <<"p", "1">>}

PriorityValues ==
    {PyNone}
    \cup {PyInt(n) : n \in {0 - 1, 0, 1, 2, 3, 4, 5, 7}}
    \cup {PyStr(x) : x \in PriorityStrings}

----------------------------------------------------------------------------
(* Requests, payloads and outputs of the commands and tools *)

IDENTIFIER_LEN == 3

\* get_team_identifier(team_id): the three-letter key of the team, in upper case
get_team_identifier(team_id) ==
    LET keys == {k \in DOMAIN KNOWN_TEAMS : KNOWN_TEAMS[k] = team_id /\ Len(k) = IDENTIFIER_LEN}
    IN  IF keys = {} THEN None ELSE str_upper(CHOOSE k \in keys : TRUE)

\* "{x}" in an f-string for x a string or None
fstr(x) == IF x = None THEN <<"N", "o", "n", "e">> ELSE x
\* "{n}" in an f-string for n an issue number or None
fnum(n) == IF n = NullNumber THEN <<"N", "o", "n", "e">> ELSE py_str(n)

\* a dict literal {} and d[k] = v
EmptyDict == [k \in {} |-> None]
Put(d, k, v) == [x \in DOMAIN d \cup {k} |-> IF x = k THEN v ELSE d[x]]
PutIf(cond, d, k, v) == IF cond THEN Put(d, k, v) ELSE d

\* api_request(endpoint, method, data, exit_on_error): the request it sends
\* carries the method and the JSON body
api_call(endpoint, method, data, exit_on_error, reply) ==
    LET r == api_request(endpoint, exit_on_error, reply)
    IN  [r EXCEPT !.requests = [i \in DOMAIN r.requests |->
                                  [method |-> method, endpoint |-> endpoint, data |-> data]]]

\* the i-th reply of the collaborator
At(replies, i) == IF i \in DOMAIN replies THEN replies[i] ELSE NoReply

\* The data of a reply is the sequence of the JSON objects in it: the elements
\* of a list, or the one object of a reply that carries a single task (none
\* when that object is {}). Of an object the model keeps the id, the team id,
\* the issue number and the title.
Item(id, team_id, n, title) == [id |-> id, team_id |-> team_id, issue_number |-> n, title |-> title]
\* result.get("data", [])
ListOf(result) == IF "data" \in result.keys THEN result.data ELSE <<>>
\* result.get("data", {})
FirstOf(result) ==
    IF "data" \in result.keys /\ Len(result.data) > 0 THEN result.data[1]
    ELSE Item(None, None, NullNumber, None)

\* an issue key in the output of a command or tool, with the team id and the
\* issue number of the task it was formatted from
KeyOut(text, team_id, n) == [text |-> text, team_id |-> team_id, issue_number |-> n]
\* what a command prints on stdout or a tool returns: the issue keys in it and
\* the JSON object of a tool result
Output(keys, result) == [keys |-> keys, result |-> result]
NoOutput == Output(<<>>, EmptyDict)

\* the outcome of a step after the steps before it
Exit(stderr, before) == Outcome("exit", NoOutput, stderr, before.requests, {})
Raise(before) == Outcome("raise", NoOutput, None, before.requests, {})
Start == Outcome("return", NoOutput, None, <<>>, {})
After(before, r) == [r EXCEPT !.requests = before.requests \o r.requests]

MSG_TEAM_REQUIRED == <<"T", "e", "a", "m", " ", "i", "s", " ", "r", "e", "q", "u", "i", "r", "e", "d", ".", " ", "U", "s", "e", ":", " ", "I", "K", "A", ",", " ", "S", "C", "H", ",", " ", "o", "r", " ", "t", "e", "a", "m", " ", "U", "U", "I", "D">>
MSG_NO_DEFAULT_PROJECT == <<"N", "o", " ", "d", "e", "f", "a", "u", "l", "t", " ", "p", "r", "o", "j", "e", "c", "t", " ", "f", "o", "r", " ", "t", "e", "a", "m", ".", " ", "S", "p", "e", "c", "i", "f", "y", " ", "-", "-", "p", "r", "o", "j", "e", "c", "t">>
MSG_NO_UPDATES == <<"N", "o", " ", "u", "p", "d", "a", "t", "e", "s", " ", "s", "p", "e", "c", "i", "f", "i", "e", "d", ".", " ", "U", "s", "e", " ", "-", "-", "s", "t", "a", "t", "u", "s", ",", " ", "-", "-", "t", "i", "t", "l", "e", ",", " ", "-", "-", "d", "e", "s", "c", "r", "i", "p", "t", "i", "o", "n", ",", " ", "-", "-", "p", "r", "i", "o", "r", "i", "t", "y", ",", " ", "-", "-", "a", "s", "s", "i", "g", "n", "e", "e", ",", " ", "o", "r", " ", "-", "-", "d", "u", "e", "-", "d", "a", "t", "e">>
PATH_TASKS == <<"/", "t", "a", "s", "k", "s">>
STATUS_TODO == <<"t", "o", "d", "o">>
UNKNOWN_TEAM_MARK == <<"?">>

----------------------------------------------------------------------------
(* CLI commands of ikanban.py; args is the argparse namespace *)

\* if args.priority: priority = parse_priority(args.priority); if priority is
\* not None: data["priority"] = priority; given is the argument, priority
\* what the parser made of it
payload_priority(data, given, priority) ==
    PutIf(given # PyNone /\ priority # PyNone, data, "priority", priority)

\* the fields create and update copy into the payload
cmd_payload(args, data) ==
    PutIf(~Falsy(args.due_date),
          PutIf(~Falsy(args.assignee),
                payload_priority(PutIf(~Falsy(args.description), data, "description", args.description),
                                 args.priority, parse_priority(args.priority)),
                "assignee_id", args.assignee),
          "due_date", args.due_date)

\* cmd_create, lines 408-417: result is what api_request came back with
cmd_create_print(args, team_id, result) ==
    LET task == FirstOf(result.value)
        team_identifier == IF get_team_identifier(team_id) = None THEN UNKNOWN_TEAM_MARK
                           ELSE get_team_identifier(team_id)
    IN  IF result.kind # "return" THEN [result EXCEPT !.value = NoOutput]
        ELSE IF args.json THEN [result EXCEPT !.value = NoOutput]
        ELSE [result EXCEPT !.value =
                Output(<<KeyOut(team_identifier \o <<"-">> \o fnum(task.issue_number),
                                team_id, task.issue_number)>>, EmptyDict)]

cmd_create(args, replies) ==
    LET team_id == resolve_team_id(args.team)
        project_id == resolve_project_id(args.project, team_id)
    IN  IF Falsy(team_id) THEN Exit(MSG_TEAM_REQUIRED, Start)
        ELSE IF Falsy(project_id) THEN Exit(MSG_NO_DEFAULT_PROJECT, Start)
        ELSE cmd_create_print(args, team_id,
                 api_call(PATH_TASKS, "POST",
                          cmd_payload(args,
                              ("project_id" :> project_id) @@ ("title" :> args.title)
                              @@ ("team_id" :> team_id)
                              @@ ("status" :> IF Falsy(args.status) THEN STATUS_TODO ELSE args.status)),
                          TRUE, At(replies, 1)))

\* cmd_update, lines 438-450: resolved is how resolve_task_id ended, data the payload
cmd_update_send(replies, resolved, data) ==
    IF resolved.kind # "return" THEN [resolved EXCEPT !.value = NoOutput]
    ELSE IF DOMAIN data = {} THEN Exit(MSG_NO_UPDATES, resolved)
    ELSE [After(resolved,
                api_call(PATH_TASKS \o <<"/">> \o fstr(resolved.value), "PUT", data, TRUE,
                         At(replies, Len(resolved.requests) + 1)))
            EXCEPT !.value = NoOutput]

cmd_update(args, replies) ==
    cmd_update_send(replies, resolve_task_id(args.task_id, At(replies, 1)),
                    cmd_payload(args,
                        PutIf(~Falsy(args.title),
                              PutIf(~Falsy(args.status), EmptyDict, "status", args.status),
                              "title", args.title)))

PATH_PROJECTS == <<"/", "p", "r", "o", "j", "e", "c", "t", "s">>
PATH_COMMENTS == <<"/", "c", "o", "m", "m", "e", "n", "t", "s">>
PATH_LINKS == <<"/", "l", "i", "n", "k", "s">>
PATH_MOVE == <<"/", "m", "o", "v", "e">>
PATH_DOCUMENTS == <<"/", "d", "o", "c", "u", "m", "e", "n", "t", "s", "?">>
PATH_UPLOAD == <<"/", "d", "o", "c", "u", "m", "e", "n", "t", "s", "/", "u", "p", "l", "o", "a", "d">>
QUERY_SEARCH == <<"s", "e", "a", "r", "c", "h", "=">>
QUERY_ALL == <<"a", "l", "l", "=", "t", "r", "u", "e">>
DEFAULT_AUTHOR == <<"C", "l", "a", "u", "d", "e", " ", "C", "o", "d", "e">>
MSG_FILE_NOT_FOUND == <<"F", "i", "l", "e", " ", "n", "o", "t", " ", "f", "o", "u", "n", "d", ":", " ">>
MSG_TEAM_REQUIRED_TO_SEARCH == <<"T", "e", "a", "m", " ", "r", "e", "q", "u", "i", "r", "e", "d", " ", "t", "o", " ", "s", "e", "a", "r", "c", "h", " ", "f", "o", "r", " ", "d", "o", "c", "u", "m", "e", "n", "t", " ", "b", "y", " ", "t", "i", "t", "l", "e", ":", " ">>
MSG_NO_VALID_DOCUMENTS == <<"N", "o", " ", "v", "a", "l", "i", "d", " ", "d", "o", "c", "u", "m", "e", "n", "t", "s", " ", "t", "o", " ", "l", "i", "n", "k">>

\* the request about a task whose reference resolved ended as resolved says:
\* suffix follows /tasks/{task_id} in the endpoint
task_request(resolved, replies, method, suffix, data) ==
    IF resolved.kind # "return" THEN [resolved EXCEPT !.value = NoOutput]
    ELSE After(resolved,
               api_call(PATH_TASKS \o <<"/">> \o fstr(resolved.value) \o suffix, method, data,
                        TRUE, At(replies, Len(resolved.requests) + 1)))

\* task_command that sends its request about the task a second time
task_command_SendsTwice(args, replies, method, suffix, data) ==
    LET resolved == resolve_task_id(args.task_id, At(replies, 1))
        result == api_call(PATH_TASKS \o <<"/">> \o fstr(resolved.value) \o suffix, method, data,
                           TRUE, At(replies, Len(resolved.requests) + 1))
    IN  IF resolved.kind # "return" THEN [resolved EXCEPT !.value = NoOutput]
        ELSE After(After(resolved, result), result)

\* a command that resolves the task reference and then sends one request
\* about the task
task_command(args, replies, method, suffix, data) ==
    task_request(resolve_task_id(args.task_id, At(replies, 1)), replies, method, suffix, data)

cmd_teams(args, replies) ==
    [api_call(<<"/", "t", "e", "a", "m", "s">>, "GET", EmptyDict, TRUE, At(replies, 1)) EXCEPT !.value = NoOutput]

cmd_projects(args, replies) ==
    [api_call(PATH_PROJECTS, "GET", EmptyDict, TRUE, At(replies, 1)) EXCEPT !.value = NoOutput]

\* cmd_issues, lines 356-376: the issues that pass the status and assignee
\* filters are any sublist of the reply, and every list is a reply of the model
cmd_issues_print(args, team_id, result) ==
    LET issues == ListOf(result.value)
        team_identifier == IF get_team_identifier(team_id) = None THEN UNKNOWN_TEAM_MARK
                           ELSE get_team_identifier(team_id)
    IN  IF result.kind # "return" \/ args.json THEN [result EXCEPT !.value = NoOutput]
        ELSE [result EXCEPT !.value =
                Output([i \in DOMAIN issues |->
                          KeyOut(team_identifier \o <<"-">> \o fnum(issues[i].issue_number),
                                 team_id, issues[i].issue_number)], EmptyDict)]

cmd_issues(args, replies) ==
    LET team_id == resolve_team_id(args.team)
    IN  IF Falsy(team_id) THEN Exit(MSG_TEAM_REQUIRED, Start)
        ELSE cmd_issues_print(args, team_id,
                 api_call(PATH_TEAMS \o fstr(team_id) \o PATH_ISSUES, "GET", EmptyDict, TRUE,
                          At(replies, 1)))

\* cmd_task, lines 455-480: r is how the request for the task ended
cmd_task_print(args, r) ==
    LET task == FirstOf(r.value)
        team_identifier == IF Falsy(task.team_id) THEN None ELSE get_team_identifier(task.team_id)
    IN  IF r.kind # "return" \/ args.json THEN [r EXCEPT !.value = NoOutput]
        ELSE IF team_identifier # None /\ task.issue_number \notin {NullNumber, 0}
        THEN [r EXCEPT !.value =
                Output(<<KeyOut(team_identifier \o <<"-">> \o fnum(task.issue_number),
                                task.team_id, task.issue_number)>>, EmptyDict)]
        ELSE [r EXCEPT !.value = NoOutput]

cmd_task(args, replies) == cmd_task_print(args, task_command(args, replies, "GET", <<>>, EmptyDict))

MSG_CANCELLED == <<"C", "a", "n", "c", "e", "l", "l", "e", "d">>
\* print(text) of a command that prints nothing else the model keeps
Printed(text) == Output(<<>>, "stdout" :> text)

\* cmd_delete that does not look at the answer to its prompt
cmd_delete_confirm_IgnoresAnswer(args, replies, resolved) ==
    IF resolved.kind # "return" THEN [resolved EXCEPT !.value = NoOutput]
    ELSE [task_request(resolved, replies, "DELETE", <<>>, EmptyDict) EXCEPT !.value = NoOutput]

\* cmd_delete, lines 485-496: args.confirm is the line input() reads when
\* --force is not given
cmd_delete_confirm(args, replies, resolved) ==
    IF resolved.kind # "return" THEN [resolved EXCEPT !.value = NoOutput]
    ELSE IF ~args.force /\ str_lower(args.confirm) # <<"y">>
    THEN [resolved EXCEPT !.value = Printed(MSG_CANCELLED)]
    ELSE [task_request(resolved, replies, "DELETE", <<>>, EmptyDict) EXCEPT !.value = NoOutput]

cmd_delete(args, replies) ==
    cmd_delete_confirm(args, replies, resolve_task_id(args.task_id, At(replies, 1)))

cmd_move(args, replies) ==
    [task_command(args, replies, "POST", PATH_MOVE, "project_id" :> args.project_id)
        EXCEPT !.value = NoOutput]

cmd_comments(args, replies) ==
    [task_command(args, replies, "GET", PATH_COMMENTS, EmptyDict) EXCEPT !.value = NoOutput]

cmd_comment(args, replies) ==
    [task_command(args, replies, "POST", PATH_COMMENTS,
                  ("content" :> args.content)
                  @@ ("author_name" :> IF Falsy(args.author_name) THEN DEFAULT_AUTHOR
                                       ELSE args.author_name))
        EXCEPT !.value = NoOutput]

cmd_docs(args, replies) ==
    [task_command(args, replies, "GET", PATH_LINKS, EmptyDict) EXCEPT !.value = NoOutput]

cmd_unlink(args, replies) ==
    [task_command(args, replies, "DELETE", PATH_LINKS \o <<"/">> \o fstr(args.document_id), EmptyDict)
        EXCEPT !.value = NoOutput]

cmd_search_docs(args, replies) ==
    LET team_id == resolve_team_id(args.team)
        params == IF Falsy(args.query) THEN QUERY_ALL ELSE QUERY_SEARCH \o args.query
    IN  IF Falsy(team_id) THEN Exit(MSG_TEAM_REQUIRED, Start)
        ELSE [api_call(PATH_TEAMS \o fstr(team_id) \o PATH_DOCUMENTS \o params, "GET",
                       EmptyDict, TRUE, At(replies, 1))
                EXCEPT !.value = NoOutput]

\* urllib.parse.quote(s) for the characters of the model: a space is escaped
url_quote(s) ==
    IF s = <<>> THEN <<>>
    ELSE LET quoted == [i \in 1..Len(s) |-> IF s[i] = " " THEN <<"%", "2", "0">> ELSE <<s[i]>>]
             F[i \in 0..Len(s)] == IF i = 0 THEN <<>> ELSE F[i - 1] \o quoted[i]
         IN  F[Len(s)]

\* the first document of docs whose title is title in any letter case;
\* 0 when there is none
exact_match(docs, title) ==
    LET hits == {i \in DOMAIN docs : str_lower(docs[i].title) = str_lower(title)}
    IN  IF hits = {} THEN 0 ELSE SetMin(hits)

\* cmd_upload, lines 598-602: the id of the document whose title matches
\* exactly joins doc_ids, the value of the outcome
upload_search_hit(before, title, search_result) ==
    LET docs == ListOf(search_result.value)
        hit == exact_match(docs, title)
    IN  After(before,
              [search_result EXCEPT !.value =
                  IF search_result.kind # "return" \/ hit = 0 THEN before.value
                  ELSE Append(before.value, docs[hit].id)])

\* cmd_upload, lines 596-604: one search per uploaded title
RECURSIVE upload_search(_, _, _, _)
upload_search(team_id, titles, replies, before) ==
    IF titles = <<>> \/ before.kind # "return" THEN before
    ELSE upload_search(team_id, Tail(titles), replies,
             upload_search_hit(before, Head(titles),
                 api_call(PATH_TEAMS \o fstr(team_id) \o PATH_DOCUMENTS
                              \o QUERY_SEARCH \o url_quote(Head(titles)),
                          "GET", EmptyDict, FALSE, At(replies, Len(before.requests) + 1))))

\* cmd_upload, lines 604-614: the documents found are linked to the task
cmd_upload_link(searched, replies, task_id) ==
    IF searched.kind # "return" THEN [searched EXCEPT !.value = NoOutput]
    ELSE IF searched.value = <<>> THEN [searched EXCEPT !.value = NoOutput]
    ELSE [After(searched,
                api_call(PATH_TASKS \o <<"/">> \o fstr(task_id) \o PATH_LINKS, "POST",
                         "document_ids" :> searched.value, TRUE,
                         At(replies, Len(searched.requests) + 1)))
            EXCEPT !.value = NoOutput]

\* cmd_upload, lines 587-614: resolved is how resolve_task_id ended
cmd_upload_resolved(replies, team_id, uploaded_docs, resolved) ==
    IF resolved.kind # "return" THEN [resolved EXCEPT !.value = NoOutput]
    ELSE cmd_upload_link(upload_search(team_id,
                                       [i \in DOMAIN uploaded_docs |-> uploaded_docs[i].title],
                                       replies, [resolved EXCEPT !.value = <<>>]),
                         replies, resolved.value)

\* cmd_upload, lines 569-614: result is what multipart_upload came back with
cmd_upload_uploaded(args, replies, team_id, result) ==
    IF result.kind # "return" \/ args.json THEN [result EXCEPT !.value = NoOutput]
    ELSE IF Falsy(args.task) \/ Len(ListOf(result.value)) = 0 THEN [result EXCEPT !.value = NoOutput]
    ELSE cmd_upload_resolved(replies, team_id, ListOf(result.value),
                             After(result, resolve_task_id(args.task, At(replies, 2))))

\* args.files_exist: every path of args.files names an existing file
cmd_upload(args, replies) ==
    LET team_id == resolve_team_id(args.team)
    IN  IF Falsy(team_id) THEN Exit(MSG_TEAM_REQUIRED, Start)
        ELSE IF ~args.files_exist THEN Exit(MSG_FILE_NOT_FOUND, Start)
        ELSE cmd_upload_uploaded(args, replies, team_id,
                 api_call(PATH_TEAMS \o fstr(team_id) \o PATH_UPLOAD, "POST",
                          "files" :> args.files, TRUE, At(replies, 1)))

\* cmd_link, lines 634-646: the id of the document whose title matches exactly,
\* or else of the first document found, joins doc_ids, the value of the outcome
link_search_hit(before, doc_ref, search_result) ==
    LET docs == ListOf(search_result.value)
        hit == exact_match(docs, doc_ref)
    IN  After(before,
              [search_result EXCEPT !.value =
                  IF search_result.kind # "return" THEN before.value
                  ELSE IF hit # 0 THEN Append(before.value, docs[hit].id)
                  ELSE IF docs # <<>> THEN Append(before.value, docs[1].id)
                  ELSE before.value])

\* cmd_link, lines 623-646: a reference of UUID shape is taken as it is, any
\* other one is searched for as a title
RECURSIVE link_search(_, _, _, _)
link_search(args, document_ids, replies, before) ==
    IF document_ids = <<>> \/ before.kind # "return" THEN before
    ELSE IF Len(Head(document_ids)) = UUID_LEN /\ str_count(Head(document_ids), "-") = UUID_HYPHENS
    THEN link_search(args, Tail(document_ids), replies,
                     [before EXCEPT !.value = Append(before.value, Head(document_ids))])
    ELSE IF Falsy(args.team)
    THEN [Exit(MSG_TEAM_REQUIRED_TO_SEARCH \o Head(document_ids), before)
            EXCEPT !.value = before.value]
    ELSE link_search(args, Tail(document_ids), replies,
             link_search_hit(before, Head(document_ids),
                 api_call(PATH_TEAMS \o fstr(resolve_team_id(args.team)) \o PATH_DOCUMENTS
                              \o QUERY_SEARCH \o url_quote(Head(document_ids)),
                          "GET", EmptyDict, FALSE, At(replies, Len(before.requests) + 1))))

\* cmd_link, lines 648-662: the documents found are linked to the task
cmd_link_send(searched, replies, task_id) ==
    IF searched.kind # "return" THEN [searched EXCEPT !.value = NoOutput]
    ELSE IF searched.value = <<>> THEN Exit(MSG_NO_VALID_DOCUMENTS, searched)
    ELSE [After(searched,
                api_call(PATH_TASKS \o <<"/">> \o fstr(task_id) \o PATH_LINKS, "POST",
                         "document_ids" :> searched.value, TRUE,
                         At(replies, Len(searched.requests) + 1)))
            EXCEPT !.value = NoOutput]

\* cmd_link, lines 619-662: resolved is how resolve_task_id ended
cmd_link_resolved(args, replies, resolved) ==
    IF resolved.kind # "return" THEN [resolved EXCEPT !.value = NoOutput]
    ELSE cmd_link_send(link_search(args, args.document_ids, replies,
                                   [resolved EXCEPT !.value = <<>>]),
                       replies, resolved.value)

cmd_link(args, replies) ==
    cmd_link_resolved(args, replies, resolve_task_id(args.task_id, At(replies, 1)))

EXIT_USAGE == 2

\* main(): argparse rejects a --status outside its choices before any command
\* runs (parser.error exits with status 2), then the command is dispatched
main(args, replies) ==
    IF args.command \in {"issues", "create", "update"}
       /\ args.status # None /\ args.status \notin Range(STATUSES)
    THEN [Exit(None, Start) EXCEPT !.exit_code = EXIT_USAGE]
    ELSE CASE args.command = "teams" -> cmd_teams(args, replies)
           [] args.command = "projects" -> cmd_projects(args, replies)
           [] args.command = "issues" -> cmd_issues(args, replies)
           [] args.command = "create" -> cmd_create(args, replies)
           [] args.command = "update" -> cmd_update(args, replies)
           [] args.command = "task" -> cmd_task(args, replies)
           [] args.command = "delete" -> cmd_delete(args, replies)
           [] args.command = "move" -> cmd_move(args, replies)
           [] args.command = "comments" -> cmd_comments(args, replies)
           [] args.command = "comment" -> cmd_comment(args, replies)
           [] args.command = "upload" -> cmd_upload(args, replies)
           [] args.command = "link" -> cmd_link(args, replies)
           [] args.command = "unlink" -> cmd_unlink(args, replies)
           [] args.command = "docs" -> cmd_docs(args, replies)
           [] args.command = "search-docs" -> cmd_search_docs(args, replies)

----------------------------------------------------------------------------
(* MCP tools of ikanban.py; args is the "arguments" object of the call *)

EXC_KEY_ERROR == <<"K", "e", "y", "E", "r", "r", "o", "r">>
DEFAULT_TEAM == <<"I", "K", "A">>
DEFAULT_PROJECT == <<"f", "r", "o", "n", "t", "e", "n", "d">>
PATH_TASKS_OF_PROJECT == <<"/", "t", "a", "s", "k", "s", "?", "p", "r", "o", "j", "e", "c", "t", "_", "i", "d", "=">>
QUERY_STATUS == <<"&", "s", "t", "a", "t", "u", "s", "=">>
MSG_UNKNOWN_TOOL == <<"U", "n", "k", "n", "o", "w", "n", " ", "t", "o", "o", "l", ":", " ">>

\* args.get(key) and args.get(key, default); a missing "priority" is None
Get(args, key) == DictGet(args, key, IF key = "priority" THEN PyNone ELSE None)
\* args[key] raises KeyError when the key is missing
KeyError(before) == Outcome("raise", NoOutput, EXC_KEY_ERROR, before.requests, {})

\* api_request answered with a JSON object that has no "error"
Succeeded(r) == r.kind = "return" /\ "error" \notin r.value.keys
\* {"error": result.get("error")} after a failed request, or what the tool
\* returns after a successful one
ToolResult(r, keys, result) ==
    IF r.kind # "return" THEN [r EXCEPT !.value = NoOutput]
    ELSE IF Succeeded(r) THEN [r EXCEPT !.value = Output(keys, result)]
    ELSE [r EXCEPT !.value = Output(<<>>, "error" :> r.value.error)]

\* a tool that sends one request about the task args["task_id"] names
tool_task_request(args, replies, method, suffix, data, result) ==
    IF "task_id" \notin DOMAIN args THEN KeyError(Start)
    ELSE ToolResult(api_call(PATH_TASKS \o <<"/">> \o fstr(args["task_id"]) \o suffix, method, data,
                             FALSE, At(replies, 1)),
                    <<>>, result)

\* the request of a document tool; resolved is how resolve_task_id ended
tool_document_result(replies, method, suffix, data, resolved) ==
    IF resolved.kind # "return" THEN [resolved EXCEPT !.value = NoOutput]
    ELSE ToolResult(After(resolved,
                          api_call(PATH_TASKS \o <<"/">> \o fstr(resolved.value) \o suffix, method,
                                   data, FALSE, At(replies, Len(resolved.requests) + 1))),
                    <<>>, "task_id" :> resolved.value)

\* a document tool: the task reference is resolved first
tool_document_request(args, replies, method, suffix, data) ==
    IF "task_id" \notin DOMAIN args THEN KeyError(Start)
    ELSE tool_document_result(replies, method, suffix, data,
                              resolve_task_id(args["task_id"], At(replies, 1)))

\* a document tool whose other argument is missing: args[key] raises KeyError
\* once the task reference is resolved
tool_document_key_error(resolved) ==
    IF resolved.kind # "return" THEN [resolved EXCEPT !.value = NoOutput]
    ELSE KeyError(resolved)

\* the fields the create and update tools copy into the payload
tool_payload(args, fields, data) ==
    LET copied == [k \in DOMAIN data \cup {f \in fields : ~Falsy(Get(args, f))} |->
                      IF k \in fields /\ ~Falsy(Get(args, k)) THEN args[k] ELSE data[k]]
    IN  PutIf(Get(args, "priority") # PyNone, copied, "priority",
              parse_priority(Get(args, "priority")))

\* r is what api_request came back with
ikanban_list_issues_result(team_id, r) ==
    LET issues == ListOf(r.value)
        team_ident == IF get_team_identifier(team_id) = None THEN UNKNOWN_TEAM_MARK
                      ELSE get_team_identifier(team_id)
    IN  ToolResult(r, [i \in DOMAIN issues |->
                          KeyOut(team_ident \o <<"-">> \o fnum(issues[i].issue_number),
                                 team_id, issues[i].issue_number)],
                   "team" :> team_ident)

ikanban_list_issues(args, replies) ==
    LET team_id == resolve_team_id(DictGet(args, "team", DEFAULT_TEAM))
    IN  ikanban_list_issues_result(team_id,
            api_call(PATH_TEAMS \o fstr(team_id) \o PATH_ISSUES, "GET", EmptyDict, FALSE,
                     At(replies, 1)))

ikanban_list_tasks(args, replies) ==
    LET project_id == resolve_project_id(DictGet(args, "project", DEFAULT_PROJECT), None)
        endpoint == PATH_TASKS_OF_PROJECT \o fstr(project_id)
                    \o (IF Falsy(Get(args, "status")) THEN <<>> ELSE QUERY_STATUS \o args["status"])
    IN  ToolResult(api_call(endpoint, "GET", EmptyDict, FALSE, At(replies, 1)), <<>>, EmptyDict)

\* r is what api_request came back with
ikanban_get_task_result(r) ==
    LET task == FirstOf(r.value)
        team_ident == get_team_identifier(task.team_id)
    IN  ToolResult(r, IF team_ident # None /\ task.issue_number \notin {NullNumber, 0}
                      THEN <<KeyOut(team_ident \o <<"-">> \o fnum(task.issue_number),
                                    task.team_id, task.issue_number)>>
                      ELSE <<>>,
                   "task" :> task.id)

ikanban_get_task(args, replies) ==
    IF "task_id" \notin DOMAIN args THEN KeyError(Start)
    ELSE ikanban_get_task_result(
             api_call(PATH_TASKS \o <<"/">> \o fstr(args["task_id"]), "GET", EmptyDict, FALSE,
                      At(replies, 1)))

\* r is what api_request came back with
ikanban_create_issue_result(team_id, r) ==
    LET task == FirstOf(r.value)
        team_ident == IF get_team_identifier(team_id) = None THEN UNKNOWN_TEAM_MARK
                      ELSE get_team_identifier(team_id)
    IN  ToolResult(r, <<KeyOut(team_ident \o <<"-">> \o fnum(task.issue_number),
                               team_id, task.issue_number)>>,
                   "task_id" :> task.id)

ikanban_create_issue(args, replies) ==
    LET team_id == resolve_team_id(DictGet(args, "team", DEFAULT_TEAM))
    IN  IF "title" \notin DOMAIN args THEN KeyError(Start)
        ELSE ikanban_create_issue_result(team_id,
                 api_call(PATH_TASKS, "POST",
                          tool_payload(args, {"description", "assignee_id", "due_date"},
                              ("project_id" :> resolve_project_id(Get(args, "project"), team_id))
                              @@ ("title" :> args["title"])
                              @@ ("team_id" :> team_id)
                              @@ ("status" :> DictGet(args, "status", STATUS_TODO))),
                          FALSE, At(replies, 1)))

ikanban_update_task(args, replies) ==
    tool_task_request(args, replies, "PUT", <<>>,
                      tool_payload(args, {"status", "title", "description", "assignee_id", "due_date"},
                                   EmptyDict),
                      EmptyDict)

ikanban_move_task(args, replies) ==
    IF "task_id" \notin DOMAIN args \/ "project_id" \notin DOMAIN args THEN KeyError(Start)
    ELSE tool_task_request(args, replies, "POST", PATH_MOVE, "project_id" :> args["project_id"],
                           "moved" :> TRUE)

ikanban_add_comment(args, replies) ==
    IF "content" \notin DOMAIN args THEN KeyError(Start)
    ELSE tool_task_request(args, replies, "POST", PATH_COMMENTS,
                           ("content" :> args["content"])
                           @@ ("author_name" :> IF Falsy(Get(args, "author_name"))
                                                THEN DEFAULT_AUTHOR ELSE args["author_name"]),
                           EmptyDict)

ikanban_search_documents(args, replies) ==
    LET team_id == resolve_team_id(DictGet(args, "team", DEFAULT_TEAM))
        query == Get(args, "query")
        params == IF Falsy(query) THEN QUERY_ALL ELSE QUERY_SEARCH \o url_quote(query)
    IN  ToolResult(api_call(PATH_TEAMS \o fstr(team_id) \o PATH_DOCUMENTS \o params, "GET",
                            EmptyDict, FALSE, At(replies, 1)),
                   <<>>, EmptyDict)

ikanban_link_documents(args, replies) ==
    IF "task_id" \in DOMAIN args /\ "document_ids" \notin DOMAIN args
    THEN tool_document_key_error(resolve_task_id(args["task_id"], At(replies, 1)))
    ELSE tool_document_request(args, replies, "POST", PATH_LINKS,
                               "document_ids" :> Get(args, "document_ids"))

ikanban_unlink_document(args, replies) ==
    IF "task_id" \in DOMAIN args /\ "document_id" \notin DOMAIN args
    THEN tool_document_key_error(resolve_task_id(args["task_id"], At(replies, 1)))
    ELSE tool_document_request(args, replies, "DELETE",
                               PATH_LINKS \o <<"/">> \o fstr(Get(args, "document_id")), EmptyDict)

handle_tool(name, args, replies) ==
    CASE name = "ikanban_list_teams" ->
           ToolResult(api_call(<<"/", "t", "e", "a", "m", "s">>, "GET", EmptyDict, FALSE, At(replies, 1)), <<>>, EmptyDict)
      [] name = "ikanban_list_projects" ->
           ToolResult(api_call(PATH_PROJECTS, "GET", EmptyDict, FALSE, At(replies, 1)), <<>>, EmptyDict)
      [] name = "ikanban_list_issues" -> ikanban_list_issues(args, replies)
      [] name = "ikanban_list_tasks" -> ikanban_list_tasks(args, replies)
      [] name = "ikanban_get_task" -> ikanban_get_task(args, replies)
      [] name = "ikanban_create_issue" -> ikanban_create_issue(args, replies)
      [] name = "ikanban_update_task" -> ikanban_update_task(args, replies)
      [] name = "ikanban_delete_task" ->
           tool_task_request(args, replies, "DELETE", <<>>, EmptyDict, "deleted" :> TRUE)
      [] name = "ikanban_move_task" -> ikanban_move_task(args, replies)
      [] name = "ikanban_list_comments" ->
           tool_task_request(args, replies, "GET", PATH_COMMENTS, EmptyDict, EmptyDict)
      [] name = "ikanban_add_comment" -> ikanban_add_comment(args, replies)
      [] name = "ikanban_search_documents" -> ikanban_search_documents(args, replies)
      [] name = "ikanban_get_task_documents" ->
           tool_document_request(args, replies, "GET", PATH_LINKS, EmptyDict)
      [] name = "ikanban_link_documents" -> ikanban_link_documents(args, replies)
      [] name = "ikanban_unlink_document" -> ikanban_unlink_document(args, replies)
      [] OTHER -> [Start EXCEPT !.value = Output(<<>>, "error" :> MSG_UNKNOWN_TOOL \o <<name>>)]

----------------------------------------------------------------------------
(* MCP tools of server.py; params is the "arguments" object of the call *)

server_resolve_team_id(team_ref) ==
    IF Falsy(team_ref) THEN None
    ELSE IF team_ref \in DOMAIN KNOWN_TEAMS THEN KNOWN_TEAMS[team_ref]
    ELSE IF str_lower(team_ref) \in DOMAIN KNOWN_TEAMS THEN KNOWN_TEAMS[str_lower(team_ref)]
    ELSE team_ref

server_resolve_project_id(project_ref, team_id) ==
    IF Falsy(project_ref)
    THEN IF ~Falsy(team_id) THEN DictGet(TEAM_DEFAULT_PROJECTS, team_id, None) ELSE None
    ELSE LET lower_ref == str_lower(project_ref)
         IN  IF team_id = IKA_TEAM_ID
             THEN IF lower_ref \in DOMAIN IKA_PROJECTS
                     /\ ~str_startswith(IKA_PROJECTS[lower_ref], USE_PREFIX)
                  THEN IKA_PROJECTS[lower_ref]
                  ELSE project_ref
             ELSE IF team_id = SCH_TEAM_ID /\ lower_ref \in DOMAIN SCH_PROJECTS
                  THEN SCH_PROJECTS[lower_ref]
                  ELSE project_ref

\* api_request of server.py never exits: a failure is returned as a dict
server_api_request(endpoint, method, data, reply) == api_call(endpoint, method, data, FALSE, reply)

MSG_TASK_ID_IS_REQUIRED == <<"t", "a", "s", "k", "_", "i", "d", " ", "i", "s", " ", "r", "e", "q", "u", "i", "r", "e", "d">>
MSG_TITLE_IS_REQUIRED == <<"t", "i", "t", "l", "e", " ", "i", "s", " ", "r", "e", "q", "u", "i", "r", "e", "d">>
MSG_PROJECT_ID_IS_REQUIRED == <<"p", "r", "o", "j", "e", "c", "t", "_", "i", "d", " ", "i", "s", " ", "r", "e", "q", "u", "i", "r", "e", "d">>
MSG_CONTENT_IS_REQUIRED == <<"c", "o", "n", "t", "e", "n", "t", " ", "i", "s", " ", "r", "e", "q", "u", "i", "r", "e", "d">>
MSG_NO_PROJECT_CONFIGURED == <<"N", "o", " ", "d", "e", "f", "a", "u", "l", "t", " ", "p", "r", "o", "j", "e", "c", "t", " ", "c", "o", "n", "f", "i", "g", "u", "r", "e", "d", " ", "f", "o", "r", " ", "t", "e", "a", "m", " ", "'">>
MSG_PLEASE_SPECIFY == <<"'", ".", " ", "P", "l", "e", "a", "s", "e", " ", "s", "p", "e", "c", "i", "f", "y", " ", "a", " ", "p", "r", "o", "j", "e", "c", "t", ".">>
MSG_NO_UPDATES_PROVIDED == <<"N", "o", " ", "u", "p", "d", "a", "t", "e", "s", " ", "p", "r", "o", "v", "i", "d", "e", "d", ".", " ", "S", "p", "e", "c", "i", "f", "y", " ", "s", "t", "a", "t", "u", "s", ",", " ", "t", "i", "t", "l", "e", ",", " ", "d", "e", "s", "c", "r", "i", "p", "t", "i", "o", "n", ",", " ", "p", "r", "i", "o", "r", "i", "t", "y", ",", " ", "a", "s", "s", "i", "g", "n", "e", "e", "_", "i", "d", ",", " ", "o", "r", " ", "d", "u", "e", "_", "d", "a", "t", "e", ".">>

\* return {"error": message} before any request
ToolError(message) == [Start EXCEPT !.value = Output(<<>>, "error" :> message)]

\* a handler that requires task_id and sends one request about the task
server_task_request(params, replies, method, suffix, data, result) ==
    IF Falsy(Get(params, "task_id")) THEN ToolError(MSG_TASK_ID_IS_REQUIRED)
    ELSE ToolResult(server_api_request(PATH_TASKS \o <<"/">> \o params["task_id"] \o suffix, method,
                                       data, At(replies, 1)),
                    <<>>, result)

\* the fields handle_create_issue and handle_update_task copy into the payload
server_payload(params, data) ==
    PutIf(~Falsy(Get(params, "due_date")),
          PutIf(~Falsy(Get(params, "assignee_id")),
                payload_priority(data, Get(params, "priority"),
                                 server_parse_priority(Get(params, "priority"))),
                "assignee_id", Get(params, "assignee_id")),
          "due_date", Get(params, "due_date"))

\* r is what api_request came back with
handle_list_issues_result(team, team_id, r) ==
    LET issues == ListOf(r.value)
        team_identifier == IF get_team_identifier(team_id) = None THEN team
                           ELSE get_team_identifier(team_id)
        keyed == SelectSeq(issues, LAMBDA i : i.issue_number \notin {NullNumber, 0})
    IN  ToolResult(r, [i \in DOMAIN keyed |->
                          KeyOut(fstr(team_identifier) \o <<"-">> \o fnum(keyed[i].issue_number),
                                 team_id, keyed[i].issue_number)],
                   "team" :> team_identifier)

handle_list_issues(params, replies) ==
    LET team == DictGet(params, "team", DEFAULT_TEAM)
        team_id == server_resolve_team_id(team)
    IN  handle_list_issues_result(team, team_id,
            server_api_request(PATH_TEAMS \o fstr(team_id) \o PATH_ISSUES, "GET", EmptyDict,
                               At(replies, 1)))

handle_list_tasks(params, replies) ==
    LET project_id == server_resolve_project_id(DictGet(params, "project", DEFAULT_PROJECT), None)
        status == Get(params, "status")
        endpoint == PATH_TASKS_OF_PROJECT \o fstr(project_id)
                    \o (IF Falsy(status) THEN <<>> ELSE QUERY_STATUS \o status)
    IN  ToolResult(server_api_request(endpoint, "GET", EmptyDict, At(replies, 1)), <<>>, EmptyDict)

\* r is what api_request came back with
handle_get_task_result(r) ==
    LET task == FirstOf(r.value)
        team_identifier == IF Falsy(task.team_id) THEN None
                           ELSE get_team_identifier(task.team_id)
    IN  ToolResult(r, IF team_identifier # None /\ task.issue_number \notin {NullNumber, 0}
                      THEN <<KeyOut(team_identifier \o <<"-">> \o fnum(task.issue_number),
                                    task.team_id, task.issue_number)>>
                      ELSE <<>>,
                   "task" :> task.id)

handle_get_task(params, replies) ==
    IF Falsy(Get(params, "task_id")) THEN ToolError(MSG_TASK_ID_IS_REQUIRED)
    ELSE handle_get_task_result(
             server_api_request(PATH_TASKS \o <<"/">> \o params["task_id"], "GET", EmptyDict,
                                At(replies, 1)))

\* the result carries issue_key when the task has a number, and always the
\* message "Created {team_identifier}-{issue_number}: {title}"; r is what
\* api_request came back with
handle_create_issue_result(team, team_id, r) ==
    LET task == FirstOf(r.value)
        team_identifier == IF get_team_identifier(team_id) = None THEN team
                           ELSE get_team_identifier(team_id)
        key == KeyOut(fstr(team_identifier) \o <<"-">> \o fnum(task.issue_number), team_id,
                      task.issue_number)
    IN  ToolResult(r, IF task.issue_number \notin {NullNumber, 0} THEN <<key, key>> ELSE <<key>>,
                   "task_id" :> task.id)

handle_create_issue(params, replies) ==
    LET title == Get(params, "title")
        team == DictGet(params, "team", DEFAULT_TEAM)
        team_id == server_resolve_team_id(team)
        project_id == server_resolve_project_id(Get(params, "project"), team_id)
    IN  IF Falsy(title) THEN ToolError(MSG_TITLE_IS_REQUIRED)
        ELSE IF Falsy(project_id)
        THEN ToolError(MSG_NO_PROJECT_CONFIGURED \o fstr(team) \o MSG_PLEASE_SPECIFY)
        ELSE handle_create_issue_result(team, team_id,
                 server_api_request(PATH_TASKS, "POST",
                     server_payload(params,
                         PutIf(~Falsy(Get(params, "description")),
                               ("project_id" :> project_id) @@ ("title" :> title)
                               @@ ("team_id" :> team_id)
                               @@ ("status" :> DictGet(params, "status", STATUS_TODO)),
                               "description", Get(params, "description"))),
                     At(replies, 1)))

\* data is the payload of the update
handle_update_task_send(params, replies, data) ==
    IF Falsy(Get(params, "task_id")) THEN ToolError(MSG_TASK_ID_IS_REQUIRED)
    ELSE IF DOMAIN data = {} THEN ToolError(MSG_NO_UPDATES_PROVIDED)
    ELSE server_task_request(params, replies, "PUT", <<>>, data, EmptyDict)

handle_update_task(params, replies) ==
    handle_update_task_send(params, replies,
        server_payload(params,
            PutIf(Get(params, "description") # None,
                  PutIf(~Falsy(Get(params, "title")),
                        PutIf(~Falsy(Get(params, "status")), EmptyDict, "status", Get(params, "status")),
                        "title", Get(params, "title")),
                  "description", Get(params, "description"))))

handle_move_task(params, replies) ==
    IF Falsy(Get(params, "task_id")) THEN ToolError(MSG_TASK_ID_IS_REQUIRED)
    ELSE IF Falsy(Get(params, "project_id")) THEN ToolError(MSG_PROJECT_ID_IS_REQUIRED)
    ELSE server_task_request(params, replies, "POST", PATH_MOVE,
             "project_id" :> server_resolve_project_id(params["project_id"], None), EmptyDict)

handle_add_comment(params, replies) ==
    IF Falsy(Get(params, "task_id")) THEN ToolError(MSG_TASK_ID_IS_REQUIRED)
    ELSE IF Falsy(Get(params, "content")) THEN ToolError(MSG_CONTENT_IS_REQUIRED)
    ELSE server_task_request(params, replies, "POST", PATH_COMMENTS,
             PutIf(~Falsy(Get(params, "author_name")), "content" :> params["content"],
                   "author_name", Get(params, "author_name")),
             EmptyDict)

TOOL_HANDLERS ==
    {"vk_list_teams", "vk_list_projects", "vk_list_issues", "vk_list_tasks", "vk_get_task",
     "vk_create_issue", "vk_update_task", "vk_delete_task", "vk_move_task", "vk_list_comments",
     "vk_add_comment"}

\* TOOL_HANDLERS[tool_name](tool_args) for a tool_name of TOOL_HANDLERS
server_handler(tool_name, params, replies) ==
    CASE tool_name = "vk_list_teams" ->
           ToolResult(server_api_request(<<"/", "t", "e", "a", "m", "s">>, "GET", EmptyDict, At(replies, 1)), <<>>, EmptyDict)
      [] tool_name = "vk_list_projects" ->
           ToolResult(server_api_request(PATH_PROJECTS, "GET", EmptyDict, At(replies, 1)), <<>>, EmptyDict)
      [] tool_name = "vk_list_issues" -> handle_list_issues(params, replies)
      [] tool_name = "vk_list_tasks" -> handle_list_tasks(params, replies)
      [] tool_name = "vk_get_task" -> handle_get_task(params, replies)
      [] tool_name = "vk_create_issue" -> handle_create_issue(params, replies)
      [] tool_name = "vk_update_task" -> handle_update_task(params, replies)
      [] tool_name = "vk_delete_task" ->
           server_task_request(params, replies, "DELETE", <<>>, EmptyDict, "deleted" :> TRUE)
      [] tool_name = "vk_move_task" -> handle_move_task(params, replies)
      [] tool_name = "vk_list_comments" ->
           server_task_request(params, replies, "GET", PATH_COMMENTS, EmptyDict, EmptyDict)
      [] tool_name = "vk_add_comment" -> handle_add_comment(params, replies)

----------------------------------------------------------------------------
(* The create and update commands of cli.py *)

USE_VK_LIST_PROJECTS == <<"u", "s", "e", "-", "v", "k", "_", "l", "i", "s", "t", "_", "p", "r", "o", "j", "e", "c", "t", "s">>

CLI_IKA_PROJECTS ==
    (<<"f", "r", "o", "n", "t", "e", "n", "d">> :> IKA_FRONTEND_ID)
    @@ (<<"b", "a", "c", "k", "e", "n", "d">> :> USE_VK_LIST_PROJECTS)
    @@ (<<"i", "n", "t", "e", "g", "r", "a", "t", "i", "o", "n">> :> USE_VK_LIST_PROJECTS)

cli_resolve_team_id(team_ref) ==
    IF Falsy(team_ref) THEN None
    ELSE LET lower_ref == str_lower(team_ref)
         IN  DictGet(KNOWN_TEAMS, lower_ref, team_ref)

cli_resolve_project_id(project_ref, team_id) ==
    IF Falsy(project_ref)
    THEN IF ~Falsy(team_id) THEN DictGet(TEAM_DEFAULT_PROJECTS, team_id, None) ELSE None
    ELSE IF team_id = IKA_TEAM_ID
         THEN IF str_lower(project_ref) \in DOMAIN CLI_IKA_PROJECTS
                 /\ CLI_IKA_PROJECTS[str_lower(project_ref)] # USE_VK_LIST_PROJECTS
              THEN CLI_IKA_PROJECTS[str_lower(project_ref)]
              ELSE project_ref
         ELSE IF team_id = SCH_TEAM_ID /\ str_lower(project_ref) \in DOMAIN SCH_PROJECTS
              THEN SCH_PROJECTS[str_lower(project_ref)]
              ELSE project_ref

\* api_request of cli.py always exits on an error
cli_api_request(endpoint, method, data, reply) == api_call(endpoint, method, data, TRUE, reply)

cli_payload(args, data) ==
    PutIf(~Falsy(args.due_date),
          PutIf(~Falsy(args.assignee),
                payload_priority(PutIf(~Falsy(args.description), data, "description", args.description),
                                 args.priority, cli_parse_priority(args.priority)),
                "assignee_id", args.assignee),
          "due_date", args.due_date)

\* result is what api_request came back with
cli_cmd_create_print(args, team_id, result) ==
    LET task == FirstOf(result.value)
        team_identifier == IF get_team_identifier(team_id) = None THEN UNKNOWN_TEAM_MARK
                           ELSE get_team_identifier(team_id)
    IN  IF result.kind # "return" \/ args.json THEN [result EXCEPT !.value = NoOutput]
        ELSE [result EXCEPT !.value =
                Output(<<KeyOut(team_identifier \o <<"-">> \o fnum(task.issue_number),
                                team_id, task.issue_number)>>, EmptyDict)]

cli_cmd_create(args, replies) ==
    LET team_id == resolve_team_id(args.team)
        project_id == cli_resolve_project_id(args.project, team_id)
    IN  IF Falsy(team_id) THEN Exit(MSG_TEAM_REQUIRED, Start)
        ELSE IF Falsy(project_id) THEN Exit(MSG_NO_DEFAULT_PROJECT, Start)
        ELSE cli_cmd_create_print(args, team_id,
                 cli_api_request(PATH_TASKS, "POST",
                     cli_payload(args,
                         ("project_id" :> project_id) @@ ("title" :> args.title)
                         @@ ("team_id" :> team_id)
                         @@ ("status" :> IF Falsy(args.status) THEN STATUS_TODO ELSE args.status)),
                     At(replies, 1)))

\* data is the payload of the update
cli_cmd_update_send(args, replies, data) ==
    IF DOMAIN data = {} THEN Exit(MSG_NO_UPDATES, Start)
    ELSE [cli_api_request(PATH_TASKS \o <<"/">> \o fstr(args.task_id), "PUT", data, At(replies, 1))
            EXCEPT !.value = NoOutput]

cli_cmd_update(args, replies) ==
    cli_cmd_update_send(args, replies,
        cli_payload(args,
            PutIf(~Falsy(args.title),
                  PutIf(~Falsy(args.status), EmptyDict, "status", args.status),
                  "title", args.title)))

\* args.confirm is the line input() reads when --force is not given
cli_cmd_delete(args, replies) ==
    IF ~args.force /\ str_lower(args.confirm) # <<"y">> THEN [Start EXCEPT !.value = Printed(MSG_CANCELLED)]
    ELSE [cli_api_request(PATH_TASKS \o <<"/">> \o fstr(args.task_id), "DELETE", EmptyDict, At(replies, 1))
            EXCEPT !.value = NoOutput]

\* main() of cli.py for the create, update and delete commands
cli_main(args, replies) ==
    IF args.status # None /\ args.status \notin Range(STATUSES)
    THEN [Exit(None, Start) EXCEPT !.exit_code = EXIT_USAGE]
    ELSE CASE args.command = "create" -> cli_cmd_create(args, replies)
           [] args.command = "update" -> cli_cmd_update(args, replies)
           [] args.command = "delete" -> cli_cmd_delete(args, replies)

----------------------------------------------------------------------------
(* Inputs of the commands *)

\* a reference of UUID shape, a key that resolves, one of an unknown team
TASK_UUID == SCH_TEMPORAL_ID
KEY_IKA_7 == <<"I", "K", "A", "-", "7">>
KEY_XYZ_7 == <<"x", "y", "z", "-", "7">>
STATUS_DONE == <<"d", "o", "n", "e">>
STATUS_BOGUS == <<"b", "o", "g", "u", "s">>
TITLE_A == <<"a">>
TITLE_B == <<"B">>
TITLE_A_B == <<"a", " ", "b">>

\* the replies of the collaborator to the request of a command or tool
CommandReplies ==
    {Reply("ok", 200, None, None, TRUE, l) :
        l \in {<<>>,
               <<Item(<<"X">>, IKA_TEAM_ID, 7, TITLE_A)>>,
               <<Item(<<"Y">>, IKA_TEAM_ID, NullNumber, TITLE_B)>>,
               <<Item(<<"Z">>, None, 7, TITLE_A)>>,
               <<Item(<<"X">>, IKA_TEAM_ID, 7, TITLE_A), Item(<<"Y">>, IKA_TEAM_ID, NullNumber, TITLE_B)>>}}
    \cup {Reply("ok", 200, None, None, FALSE, <<>>),
          Reply("http_error", HTTP_NOT_FOUND, <<"{", "}">>, TEXT_GONE, FALSE, <<>>),
          Reply("url_error", 0, TEXT_REFUSED, None, FALSE, <<>>),
          Reply("raise", 0, None, None, FALSE, <<>>)}

\* the argparse namespace with every option at its default
Args0 ==
    [command |-> "teams", team |-> None, project |-> None, title |-> None, status |-> None,
     description |-> None, priority |-> PyNone, assignee |-> None, due_date |-> None,
     task_id |-> None, json |-> FALSE, force |-> FALSE, confirm |-> <<>>, project_id |-> None,
     content |-> None, author_name |-> None, files |-> <<>>, files_exist |-> TRUE,
     folder_id |-> None, task |-> None, document_ids |-> <<>>, document_id |-> None,
     query |-> None]

CliTeams == {<<"I", "K", "A">>, <<"s", "c", "h">>, TEAM_XYZ, <<>>}
CliStatuses == {None, STATUS_DONE, STATUS_BOGUS}
\* --priority is a string or absent
CliPriorities == {PyNone, PyStr(<<"H", "i", "g", "h">>), PyStr(<<"7">>), PyStr(<<"b", "o", "g", "u", "s">>), PyStr(<<>>)}
CliTaskRefs == {TASK_UUID, KEY_IKA_7, KEY_XYZ_7, <<>>}

\* the lines a user may answer the prompt of delete with
Answers == {<<"y">>, <<"Y">>, <<"n">>, <<>>, <<"y", "e", "s">>, <<" ", "y">>}

CommandArgs ==
    {[Args0 EXCEPT !.command = c] : c \in {"teams", "projects"}}
    \cup {[Args0 EXCEPT !.command = "issues", !.team = t, !.status = s, !.json = j] :
            t \in CliTeams, s \in CliStatuses, j \in BOOLEAN}
    \cup {[Args0 EXCEPT !.command = "create", !.team = t, !.project = p, !.title = TITLE_A,
                        !.status = s, !.priority = pr, !.json = j] :
            t \in CliTeams, p \in {None, <<"B", "a", "c", "k", "e", "n", "d">>, <<"i", "n", "f", "r", "a">>}, s \in CliStatuses,
            pr \in CliPriorities, j \in BOOLEAN}
    \cup {[Args0 EXCEPT !.command = "update", !.task_id = r, !.status = s, !.title = ti,
                        !.description = d, !.priority = pr] :
            r \in CliTaskRefs, s \in CliStatuses, ti \in {None, TITLE_A}, d \in {None, <<>>, TITLE_B},
            pr \in CliPriorities}
    \cup {[Args0 EXCEPT !.command = "task", !.task_id = r, !.json = j] :
            r \in CliTaskRefs, j \in BOOLEAN}
    \cup {[Args0 EXCEPT !.command = "delete", !.task_id = r, !.force = f, !.confirm = c] :
            r \in CliTaskRefs, f \in BOOLEAN, c \in Answers}
    \cup {[Args0 EXCEPT !.command = c, !.task_id = r, !.project_id = IKA_FRONTEND_ID,
                        !.content = TITLE_A, !.author_name = a, !.document_id = TASK_UUID] :
            c \in {"move", "comments", "comment", "docs", "unlink"}, r \in CliTaskRefs,
            a \in {None, TITLE_B}}
    \cup {[Args0 EXCEPT !.command = "search-docs", !.team = t, !.query = q] :
            t \in CliTeams, q \in {None, TITLE_A_B}}
    \cup {[Args0 EXCEPT !.command = "upload", !.team = t, !.files = <<TITLE_A>>, !.files_exist = e,
                        !.task = r, !.json = j] :
            t \in {<<"I", "K", "A">>, <<>>}, e \in BOOLEAN, r \in {None, TASK_UUID, KEY_IKA_7}, j \in BOOLEAN}
    \cup {[Args0 EXCEPT !.command = "link", !.task_id = r, !.team = t, !.document_ids = ds] :
            r \in {TASK_UUID, KEY_IKA_7}, t \in {None, <<"I", "K", "A">>},
            ds \in {<<TASK_UUID>>, <<TITLE_A>>, <<TITLE_B, TASK_UUID>>, <<TITLE_A_B, TITLE_B>>}}

CommandCalls == {[fn |-> "main", args |-> a] : a \in CommandArgs}

----------------------------------------------------------------------------
(* Inputs of the tools: the "arguments" objects *)

\* the objects that have the key with one of the values, or do not have it
Opt(key, values) == {EmptyDict} \cup {key :> v : v \in values}

ToolStatuses == Opt("status", {STATUS_DONE, STATUS_BOGUS})
\* a JSON priority is an integer or a string
ToolPriorities == Opt("priority", {PyInt(2), PyInt(7), PyStr(<<"H", "i", "g", "h">>), PyStr(<<"b", "o", "g", "u", "s">>)})
ToolTaskIds == Opt("task_id", {TASK_UUID, KEY_IKA_7})
ToolTaskRefs == Opt("task_id", {TASK_UUID, KEY_IKA_7, KEY_XYZ_7, <<"I", "K", "A", "-", "0">>, <<>>})

\* the arguments objects of the tools, by the tool's name without its prefix
ToolArguments(tool) ==
    CASE tool \in {"list_teams", "list_projects"} -> {EmptyDict}
      [] tool = "list_issues" ->
           {t @@ s : t \in Opt("team", {<<"s", "c", "h">>, TEAM_XYZ, None}), s \in ToolStatuses}
      [] tool = "list_tasks" ->
           {p @@ s : p \in Opt("project", {<<"B", "a", "c", "k", "e", "n", "d">>, IKA_FRONTEND_ID}), s \in ToolStatuses}
      [] tool \in {"get_task", "delete_task", "list_comments"} -> ToolTaskIds
      [] tool = "create_issue" ->
           {ti @@ t @@ p @@ s @@ pr :
               ti \in Opt("title", {TITLE_A}), t \in Opt("team", {TEAM_XYZ}),
               p \in Opt("project", {<<"B", "a", "c", "k", "e", "n", "d">>}), s \in ToolStatuses, pr \in ToolPriorities}
      [] tool = "update_task" ->
           {r @@ s @@ ti @@ d @@ pr :
               r \in Opt("task_id", {TASK_UUID}), s \in ToolStatuses, ti \in Opt("title", {TITLE_A}),
               d \in Opt("description", {<<>>}), pr \in ToolPriorities}
      [] tool = "move_task" ->
           {r @@ p : r \in ToolTaskIds, p \in Opt("project_id", {<<"f", "r", "o", "n", "t", "e", "n", "d">>})}
      [] tool = "add_comment" ->
           {r @@ c @@ a : r \in ToolTaskIds, c \in Opt("content", {TITLE_A}),
                          a \in Opt("author_name", {TITLE_B})}
      [] tool = "search_documents" ->
           {t @@ q : t \in Opt("team", {<<"s", "c", "h">>}), q \in Opt("query", {TITLE_A_B})}
      [] tool = "get_task_documents" -> ToolTaskRefs
      [] tool = "link_documents" ->
           {r @@ d : r \in ToolTaskRefs, d \in Opt("document_ids", {<<TASK_UUID>>})}
      [] tool = "unlink_document" ->
           {r @@ d : r \in ToolTaskRefs, d \in Opt("document_id", {TASK_UUID})}

IkanbanTools ==
    {"list_teams", "list_projects", "list_issues", "list_tasks", "get_task", "create_issue",
     "update_task", "delete_task", "move_task", "list_comments", "add_comment",
     "search_documents", "get_task_documents", "link_documents", "unlink_document"}
ServerTools ==
    {"list_teams", "list_projects", "list_issues", "list_tasks", "get_task", "create_issue",
     "update_task", "delete_task", "move_task", "list_comments", "add_comment"}

ToolCalls ==
    UNION {{[fn |-> "handle_tool", args |-> [name |-> "ikanban_" \o tool, arguments |-> a]] :
               a \in ToolArguments(tool)} : tool \in IkanbanTools}
    \cup {[fn |-> "handle_tool", args |-> [name |-> "vk_list_teams", arguments |-> EmptyDict]]}

ServerToolCalls ==
    UNION {{[fn |-> "server_handler", args |-> [name |-> "vk_" \o tool, arguments |-> a]] :
               a \in ToolArguments(tool)} : tool \in ServerTools}

CliCalls ==
    {[fn |-> "cli_main", args |-> a] : a \in {x \in CommandArgs : x.command \in {"create", "update", "delete"}}}

----------------------------------------------------------------------------
(* The state machine: a command or tool holds the arguments of one call of a *)
(* resolver (Init draws them), and the call is then made in one step         *)

Pending == Outcome("none", None, None, <<>>, {})
\* no MCP server runs while a single call is examined
NO_SERVER == "none"
\* a script that is not run
NOT_RUNNING == [pc |-> "none"]
ScriptsIdle == turso = NOT_RUNNING /\ db = NOT_RUNNING /\ setup = NOT_RUNNING /\ vibe = NOT_RUNNING

Calls ==
    {[fn |-> "resolve_task_id", args |-> <<r>>] : r \in TaskRefs}
    \cup {[fn |-> "resolve_team_id", args |-> <<r>>] : r \in TeamRefs}
    \cup {[fn |-> "resolve_project_id", args |-> <<r, t>>] : r \in ProjectRefs, t \in TeamIds}

PriorityCalls ==
    {[fn |-> "parse_priority", args |-> <<p, file>>] : p \in PriorityValues, file \in SourceFiles}

Init ==
    /\ \/ call \in Calls
       \/ call \in PriorityCalls
       \/ call \in CommandCalls
       \/ call \in ToolCalls
       \/ call \in ServerToolCalls
       \/ call \in CliCalls
    /\ api_reply = NoReply
    /\ outcome = Pending
    /\ server = NO_SERVER /\ pc = "none" /\ stdin = <<>> /\ line = 0 /\ stdout = <<>>
    /\ ScriptsIdle

ResolveTaskId ==
    /\ outcome.kind = Pending.kind
    /\ call.fn = "resolve_task_id"
    \* the collaborator replies only when a request reaches it
    /\ \E reply \in IF resolve_task_id(call.args[1], NoReply).requests = <<>>
                    THEN {NoReply} ELSE Replies :
            /\ outcome' = resolve_task_id(call.args[1], reply)
            /\ api_reply' = reply
    /\ UNCHANGED call
    /\ UNCHANGED <<mcp_vars, script_vars>>

ResolveTeamId ==
    /\ outcome.kind = Pending.kind
    /\ call.fn = "resolve_team_id"
    /\ outcome' = Outcome("return", resolve_team_id(call.args[1]), None, <<>>, {})
    /\ UNCHANGED <<call, api_reply>>
    /\ UNCHANGED <<mcp_vars, script_vars>>

ResolveProjectId ==
    /\ outcome.kind = Pending.kind
    /\ call.fn = "resolve_project_id"
    /\ outcome' = Outcome("return", resolve_project_id(call.args[1], call.args[2]), None, <<>>, {})
    /\ UNCHANGED <<call, api_reply>>
    /\ UNCHANGED <<mcp_vars, script_vars>>

ParsePriority ==
    /\ outcome.kind = Pending.kind
    /\ call.fn = "parse_priority"
    /\ outcome' = Outcome("return", ParsePriorityOf(call.args[2], call.args[1]), None, <<>>, {})
    /\ UNCHANGED <<call, api_reply>>
    /\ UNCHANGED <<mcp_vars, script_vars>>

\* what a command or tool does when the collaborator answers its requests with
\* the replies, in their order
RunCall(c, replies) ==
    CASE c.fn = "main" -> main(c.args, replies)
      [] c.fn = "cli_main" -> cli_main(c.args, replies)
      [] c.fn = "handle_tool" -> handle_tool(c.args.name, c.args.arguments, replies)
      [] c.fn = "server_handler" -> server_handler(c.args.name, c.args.arguments, replies)

\* The runs of main of ikanban.py: each is a sequence of replies the run
\* consumes and the way the run ends with them; o is how the run ends with replies
RECURSIVE MainRuns(_, _)
MainRunsFrom(args, replies, o) ==
    IF Len(o.requests) <= Len(replies) THEN {<<replies, o>>}
    ELSE UNION {MainRuns(args, Append(replies, r)) : r \in CommandReplies}

MainRuns(args, replies) == MainRunsFrom(args, replies, main(args, replies))

\* the runs of main of cli.py
RECURSIVE CliMainRuns(_, _)
CliMainRunsFrom(args, replies, o) ==
    IF Len(o.requests) <= Len(replies) THEN {<<replies, o>>}
    ELSE UNION {CliMainRuns(args, Append(replies, r)) : r \in CommandReplies}

CliMainRuns(args, replies) == CliMainRunsFrom(args, replies, cli_main(args, replies))

\* the runs of handle_tool of ikanban.py
RECURSIVE HandleToolRuns(_, _, _)
HandleToolRunsFrom(name, arguments, replies, o) ==
    IF Len(o.requests) <= Len(replies) THEN {<<replies, o>>}
    ELSE UNION {HandleToolRuns(name, arguments, Append(replies, r)) : r \in CommandReplies}

HandleToolRuns(name, arguments, replies) ==
    HandleToolRunsFrom(name, arguments, replies, handle_tool(name, arguments, replies))

\* the runs of the handlers of server.py
RECURSIVE ServerHandlerRuns(_, _, _)
ServerHandlerRunsFrom(name, arguments, replies, o) ==
    IF Len(o.requests) <= Len(replies) THEN {<<replies, o>>}
    ELSE UNION {ServerHandlerRuns(name, arguments, Append(replies, r)) : r \in CommandReplies}

ServerHandlerRuns(name, arguments, replies) ==
    ServerHandlerRunsFrom(name, arguments, replies, server_handler(name, arguments, replies))

\* one invocation of the CLI of ikanban.py
RunCommand ==
    /\ outcome.kind = Pending.kind
    /\ call.fn = "main"
    /\ \E run \in MainRuns(call.args, <<>>) :
            /\ outcome' = run[2]
            /\ api_reply' = run[1]
    /\ UNCHANGED call
    /\ UNCHANGED <<mcp_vars, script_vars>>

\* one invocation of the CLI of cli.py
RunCliCommand ==
    /\ outcome.kind = Pending.kind
    /\ call.fn = "cli_main"
    /\ \E run \in CliMainRuns(call.args, <<>>) :
            /\ outcome' = run[2]
            /\ api_reply' = run[1]
    /\ UNCHANGED call
    /\ UNCHANGED <<mcp_vars, script_vars>>

\* one tool call handled by handle_tool of ikanban.py
CallTool ==
    /\ outcome.kind = Pending.kind
    /\ call.fn = "handle_tool"
    /\ \E run \in HandleToolRuns(call.args.name, call.args.arguments, <<>>) :
            /\ outcome' = run[2]
            /\ api_reply' = run[1]
    /\ UNCHANGED call
    /\ UNCHANGED <<mcp_vars, script_vars>>

\* one tool call handled by a handler of server.py
CallServerTool ==
    /\ outcome.kind = Pending.kind
    /\ call.fn = "server_handler"
    /\ \E run \in ServerHandlerRuns(call.args.name, call.args.arguments, <<>>) :
            /\ outcome' = run[2]
            /\ api_reply' = run[1]
    /\ UNCHANGED call
    /\ UNCHANGED <<mcp_vars, script_vars>>

Next ==
    \/ ResolveTaskId \/ ResolveTeamId \/ ResolveProjectId \/ ParsePriority
    \/ RunCommand \/ RunCliCommand \/ CallTool \/ CallServerTool

Spec == Init /\ [][Next]_vars

-----------------------------------------------------------------------------
(* The MCP server loops: run_mcp_server of ikanban.py, main of server.py,   *)
(* db_server.py and supabase_server.py and mcp_main of turso_sync.py read    *)
(* JSON-RPC requests from stdin, one a line, and write the responses to      *)
(* stdout.                                                                   *)
(*   server  the file whose loop runs                                        *)
(*   pc      "read" before a line is read, "handle" while the loop body      *)
(*           works on it, then "ended" (end of input or break), "exited"     *)
(*           (sys.exit) or "crashed" (an exception left the loop)            *)
(*   stdin   the lines read so far                                           *)
(*   line    the position in stdin of the line the loop body works on        *)
(*   stdout  the responses written so far                                    *)

\* most lines a client sends
MaxLines == 2

Servers == {"ikanban.py", "server.py", "turso_sync.py", "db_server.py", "supabase_server.py"}

\* JSON-RPC error codes of the responses; a response with a result has none
PARSE_ERROR == -32700
METHOD_NOT_FOUND == -32601
SERVER_ERROR == -32000
NO_ERROR == 0

\* A line of the input. kind tells what json.loads makes of the stripped line:
\* "blank" (only whitespace), "invalid" (not JSON), "non_object" (JSON but not an
\* object, as [] or 5) or "request" (an object). method, id, name and arguments
\* are the fields of a request; id is NullNumber when the object has none.
Line(kind, method, name, arguments) ==
    [kind |-> kind, method |-> method, id |-> NullNumber, name |-> name, arguments |-> arguments]
Request(method) == Line("request", method, "", EmptyDict)
ToolsCall(name, arguments) == Line("request", "tools/call", name, arguments)

\* the lines a client of the server may send
McpLines(srv) ==
    {Line("blank", "", "", EmptyDict), Line("invalid", "", "", EmptyDict),
     Line("non_object", "", "", EmptyDict),
     Request("initialize"), Request("tools/list"), Request("notifications/initialized"),
     Request("ping")}
    \cup CASE srv = "ikanban.py" ->
                {ToolsCall("ikanban_list_teams", EmptyDict),
                 ToolsCall("ikanban_delete_task", "task_id" :> TASK_UUID),
                 ToolsCall("ikanban_get_task_documents", "task_id" :> KEY_IKA_7),
                 ToolsCall("ikanban_get_task_documents", "task_id" :> KEY_XYZ_7),
                 ToolsCall("ikanban_get_task_documents", EmptyDict),
                 ToolsCall("vk_list_teams", EmptyDict)}
           [] srv = "server.py" ->
                {ToolsCall("vk_list_teams", EmptyDict),
                 ToolsCall("vk_get_task", "task_id" :> KEY_IKA_7),
                 ToolsCall("vk_get_task", EmptyDict),
                 ToolsCall("ikanban_list_teams", EmptyDict)}
           [] srv = "turso_sync.py" ->
                {ToolsCall("turso_status", EmptyDict), ToolsCall("turso_none", EmptyDict)}
           [] srv = "db_server.py" ->
                {ToolsCall("db_list_tables", EmptyDict), ToolsCall("db_none", EmptyDict)}
           [] srv = "supabase_server.py" ->
                {ToolsCall("supabase_list_tables", EmptyDict), ToolsCall("db_list_tables", EmptyDict)}

\* a client numbers its requests; a notification carries no id
IdOf(l, position) ==
    IF l.kind = "request" /\ l.method # "notifications/initialized" THEN position ELSE NullNumber

\* a response: its "id" and the code of its "error", NO_ERROR with a "result"
Response(id, code) == [id |-> id, code |-> code]
\* what one pass of a loop body does: the responses written and where the
\* process is afterwards
Pass(next_pc, responses) == [pc |-> next_pc, out |-> responses]

IsToolsCall(l) == l.kind = "request" /\ l.method = "tools/call"

\* The exceptions a raising tool call may have raised: KeyError of args[key],
\* or what urlopen and json.loads let through in api_request: JSONDecodeError
\* for a body that is not JSON, TimeoutError for a read that timed out.
Exceptions(o) ==
    IF o.kind # "raise" THEN {"none"}
    ELSE IF o.stderr = EXC_KEY_ERROR THEN {"KeyError"}
    ELSE {"JSONDecodeError", "TimeoutError"}

\* the loop body of run_mcp_server that answers a JSONDecodeError with the id
\* of the request
run_mcp_server_KeepsId(l, o, exc) ==
    CASE l.kind = "blank" -> Pass("read", <<>>)
      [] l.kind = "invalid" -> Pass("read", <<Response(NullNumber, PARSE_ERROR)>>)
      [] l.kind = "non_object" -> Pass("crashed", <<>>)
      [] l.method \in {"initialize", "tools/list"} -> Pass("read", <<Response(l.id, NO_ERROR)>>)
      [] l.method = "tools/call" ->
           CASE o.kind = "return" -> Pass("read", <<Response(l.id, NO_ERROR)>>)
             [] o.kind = "exit" -> Pass("exited", <<>>)
             [] exc = "JSONDecodeError" -> Pass("read", <<Response(l.id, PARSE_ERROR)>>)
             [] OTHER -> Pass("crashed", <<>>)
      [] l.method = "notifications/initialized" -> Pass("read", <<>>)
      [] OTHER -> Pass("read", <<Response(l.id, METHOD_NOT_FOUND)>>)

\* The body of the loop of run_mcp_server (ikanban.py) for the line l; o is how
\* handle_tool ended and exc the exception it raised. Only JSONDecodeError is
\* caught, wherever in the body it was raised; sys.exit and every other
\* exception leave the loop.
run_mcp_server(l, o, exc) ==
    CASE l.kind = "blank" -> Pass("read", <<>>)
      [] l.kind = "invalid" -> Pass("read", <<Response(NullNumber, PARSE_ERROR)>>)
      [] l.kind = "non_object" -> Pass("crashed", <<>>)
      [] l.method \in {"initialize", "tools/list"} -> Pass("read", <<Response(l.id, NO_ERROR)>>)
      [] l.method = "tools/call" ->
           CASE o.kind = "return" -> Pass("read", <<Response(l.id, NO_ERROR)>>)
             [] o.kind = "exit" -> Pass("exited", <<>>)
             [] exc = "JSONDecodeError" -> Pass("read", <<Response(NullNumber, PARSE_ERROR)>>)
             [] OTHER -> Pass("crashed", <<>>)
      [] l.method = "notifications/initialized" -> Pass("read", <<>>)
      [] OTHER -> Pass("read", <<Response(l.id, METHOD_NOT_FOUND)>>)

\* handle_request of server.py: the response to a request, none for a
\* notification; an exception of the handler becomes an error response
server_handle_request(request, o) ==
    CASE request.method \in {"initialize", "tools/list"} -> Pass("read", <<Response(request.id, NO_ERROR)>>)
      [] request.method = "tools/call" ->
           IF request.name \in TOOL_HANDLERS
           THEN CASE o.kind = "return" -> Pass("read", <<Response(request.id, NO_ERROR)>>)
                  [] o.kind = "raise" -> Pass("read", <<Response(request.id, SERVER_ERROR)>>)
                  [] OTHER -> Pass("exited", <<>>)
           ELSE Pass("read", <<Response(request.id, METHOD_NOT_FOUND)>>)
      [] request.method = "notifications/initialized" -> Pass("read", <<>>)
      [] OTHER -> Pass("read", <<Response(request.id, METHOD_NOT_FOUND)>>)

\* the body of the loop of main (server.py)
server_main(l, o) ==
    CASE l.kind = "blank" -> Pass("read", <<>>)
      [] l.kind = "invalid" -> Pass("read", <<Response(NullNumber, PARSE_ERROR)>>)
      [] l.kind = "non_object" -> Pass("crashed", <<>>)
      [] OTHER -> server_handle_request(l, o)

\* how a handler of turso_sync.py ends: it returns its result, raises an
\* exception, or is interrupted from the keyboard
TursoEnds == {"return", "raise", "interrupt"}
TURSO_TOOL_HANDLERS ==
    {"turso_status", "turso_push", "turso_pull", "turso_export_schema", "turso_export_data",
     "turso_export_migrations", "turso_full_sync"}

\* handle_request of turso_sync.py; h is how the handler ends
turso_handle_request(request, h) ==
    CASE request.method = "initialize" -> Pass("read", <<Response(request.id, NO_ERROR)>>)
      [] request.method = "notifications/initialized" -> Pass("read", <<>>)
      [] request.method = "tools/list" -> Pass("read", <<Response(request.id, NO_ERROR)>>)
      [] request.method = "tools/call" ->
           IF request.name \notin TURSO_TOOL_HANDLERS
           THEN Pass("read", <<Response(request.id, METHOD_NOT_FOUND)>>)
           ELSE CASE h = "return" -> Pass("read", <<Response(request.id, NO_ERROR)>>)
                  [] h = "raise" -> Pass("read", <<Response(request.id, SERVER_ERROR)>>)
                  [] OTHER -> Pass("ended", <<>>)
      [] OTHER -> Pass("read", <<Response(request.id, METHOD_NOT_FOUND)>>)

\* The body of the loop of mcp_main (turso_sync.py): a line that is not JSON
\* (a blank one too: the line is not stripped) is passed over, and so is, with
\* a message on stderr, a line whose handling raises
mcp_main(l, h) ==
    CASE l.kind \in {"blank", "invalid"} -> Pass("read", <<>>)
      [] l.kind = "non_object" -> Pass("read", <<>>)
      [] OTHER -> turso_handle_request(l, h)

\* how a handler of db_server.py or supabase_server.py ends: it returns its
\* result or raises an exception
HandlerEnds == {"return", "raise"}
DB_TOOL_HANDLERS ==
    {"db_query", "db_execute", "db_list_tables", "db_describe_table", "db_show_indexes",
     "db_show_foreign_keys", "db_check_connection", "db_table_exists", "db_row_count",
     "db_list_migrations", "db_read_migration", "db_apply_migration", "db_list_views",
     "db_list_functions", "db_list_triggers", "db_list_enums", "db_list_extensions",
     "db_list_policies", "db_check_rls", "db_enable_rls", "db_disable_rls", "db_export_table",
     "db_export_csv", "db_truncate_table", "db_vacuum", "db_table_stats", "db_index_usage",
     "db_active_connections", "db_slow_queries", "db_list_buckets", "db_list_storage_objects",
     "db_search_column", "db_search_data", "db_generate_insert"}
SUPABASE_TOOL_HANDLERS ==
    {"supabase_check_connection", "supabase_list_tables", "supabase_get_table_schema",
     "supabase_run_query"}

\* handle_mcp_request of db_server.py and of supabase_server.py, which differ
\* in their table of handlers only; h is how the handler ends
handle_mcp_request(request, handlers, h) ==
    CASE request.method \in {"initialize", "tools/list"} -> Pass("read", <<Response(request.id, NO_ERROR)>>)
      [] request.method = "tools/call" ->
           IF request.name \in handlers
           THEN IF h = "return" THEN Pass("read", <<Response(request.id, NO_ERROR)>>)
                ELSE Pass("read", <<Response(request.id, SERVER_ERROR)>>)
           ELSE Pass("read", <<Response(request.id, METHOD_NOT_FOUND)>>)
      [] request.method = "notifications/initialized" -> Pass("read", <<>>)
      [] OTHER -> Pass("read", <<Response(request.id, METHOD_NOT_FOUND)>>)

\* The body of the loop of main (db_server.py): every exception of the body,
\* the one of json.loads included, is answered with code -32000 and id null
db_main(l, h) ==
    CASE l.kind = "blank" -> Pass("read", <<>>)
      [] l.kind \in {"invalid", "non_object"} -> Pass("read", <<Response(NullNumber, SERVER_ERROR)>>)
      [] OTHER -> handle_mcp_request(l, DB_TOOL_HANDLERS, h)

\* The body of the loop of main (supabase_server.py): every exception of the
\* body is answered with code -32700 and id null
supabase_main(l, h) ==
    CASE l.kind = "blank" -> Pass("read", <<>>)
      [] l.kind \in {"invalid", "non_object"} -> Pass("read", <<Response(NullNumber, PARSE_ERROR)>>)
      [] OTHER -> handle_mcp_request(l, SUPABASE_TOOL_HANDLERS, h)

\* the ways the tool a line of ikanban.py calls may end: one per conversation
\* with the collaborator; a line that calls no tool has the one of Start
ToolRuns(l) ==
    IF IsToolsCall(l) THEN {run[2] : run \in HandleToolRuns(l.name, l.arguments, <<>>)}
    ELSE {Start}

\* the ways the handler a line of server.py calls may end
HandlerRuns(l) ==
    IF IsToolsCall(l) /\ l.name \in TOOL_HANDLERS
    THEN {run[2] : run \in ServerHandlerRuns(l.name, l.arguments, <<>>)}
    ELSE {Start}

\* the responses of a pass as they stand in stdout: request is the position of
\* the line the response answers, read the number of lines read when it was written
Written(responses, request, read) ==
    [i \in DOMAIN responses |->
        [id |-> responses[i].id, code |-> responses[i].code, request |-> request, read |-> read]]

NO_CALL == [fn |-> "none", args |-> <<>>]

McpInit ==
    /\ server \in Servers
    /\ pc = "read" /\ stdin = <<>> /\ line = 0 /\ stdout = <<>>
    /\ call = NO_CALL /\ api_reply = NoReply /\ outcome = Pending
    /\ ScriptsIdle

\* the loop takes the next line of stdin
ReadLine ==
    /\ pc = "read"
    /\ Len(stdin) < MaxLines
    /\ \E l \in McpLines(server) :
            stdin' = Append(stdin, [l EXCEPT !.id = IdOf(l, Len(stdin) + 1)])
    /\ line' = Len(stdin) + 1
    /\ pc' = "handle"
    /\ UNCHANGED <<server, stdout, call_vars, script_vars>>

\* stdin is at its end: the loop is left
EndOfInput ==
    /\ pc = "read"
    /\ pc' = "ended"
    /\ UNCHANGED <<server, stdin, line, stdout, call_vars, script_vars>>

\* one pass of the loop of run_mcp_server
RunMcpServer ==
    /\ server = "ikanban.py"
    /\ pc = "handle"
    /\ \E o \in ToolRuns(stdin[line]) :
         \E exc \in Exceptions(o) :
            LET pass == run_mcp_server(stdin[line], o, exc)
            IN  /\ pc' = pass.pc
                /\ stdout' = stdout \o Written(pass.out, line, Len(stdin))
    /\ UNCHANGED <<server, stdin, line, call_vars, script_vars>>

\* one pass of the loop of main of server.py
ServerMain ==
    /\ server = "server.py"
    /\ pc = "handle"
    /\ \E o \in HandlerRuns(stdin[line]) :
            LET pass == server_main(stdin[line], o)
            IN  /\ pc' = pass.pc
                /\ stdout' = stdout \o Written(pass.out, line, Len(stdin))
    /\ UNCHANGED <<server, stdin, line, call_vars, script_vars>>

\* one pass of the loop of mcp_main of turso_sync.py
McpMain ==
    /\ server = "turso_sync.py"
    /\ pc = "handle"
    /\ \E h \in TursoEnds :
            LET pass == mcp_main(stdin[line], h)
            IN  /\ pc' = pass.pc
                /\ stdout' = stdout \o Written(pass.out, line, Len(stdin))
    /\ UNCHANGED <<server, stdin, line, call_vars, script_vars>>

\* one pass of the loop of main of db_server.py
DbMain ==
    /\ server = "db_server.py"
    /\ pc = "handle"
    /\ \E h \in HandlerEnds :
            LET pass == db_main(stdin[line], h)
            IN  /\ pc' = pass.pc
                /\ stdout' = stdout \o Written(pass.out, line, Len(stdin))
    /\ UNCHANGED <<server, stdin, line, call_vars, script_vars>>

\* one pass of the loop of main of supabase_server.py
SupabaseMain ==
    /\ server = "supabase_server.py"
    /\ pc = "handle"
    /\ \E h \in HandlerEnds :
            LET pass == supabase_main(stdin[line], h)
            IN  /\ pc' = pass.pc
                /\ stdout' = stdout \o Written(pass.out, line, Len(stdin))
    /\ UNCHANGED <<server, stdin, line, call_vars, script_vars>>

McpNext ==
    \/ ReadLine \/ EndOfInput \/ RunMcpServer \/ ServerMain \/ McpMain
    \/ DbMain \/ SupabaseMain

McpSpec == McpInit /\ [][McpNext]_vars

----------------------------------------------------------------------------
(* Vocabulary of the properties *)

\* the call has been made
Done == outcome.kind # Pending.kind
IsTaskCall == Done /\ call.fn = "resolve_task_id"
IsTeamCall == Done /\ call.fn = "resolve_team_id"
IsProjectCall == Done /\ call.fn = "resolve_project_id"
\* the reference the resolver was called with
Ref == call.args[1]
IsString(x) == x # None

Hyphens(s) == Cardinality({i \in DOMAIN s : s[i] = "-"})
UuidShape(s) == IsString(s) /\ Len(s) = 36 /\ Hyphens(s) = 4

\* s read as letters, an optional hyphen, digits: <<k, h>> is the number of
\* letters and of hyphens of such a reading (there is at most one)
KeyReadings(s) ==
    {kh \in (1..Len(s)) \X {0, 1} :
        /\ \A i \in 1..kh[1] : IsAlpha(s[i])
        /\ kh[2] = 1 => (kh[1] < Len(s) /\ s[kh[1] + 1] = "-")
        /\ kh[1] + kh[2] < Len(s)
        /\ \A i \in (kh[1] + kh[2] + 1)..Len(s) : IsDigit(s[i])}

\* the key a string spells: whether it is one, its letters, its digits
Key(s) ==
    LET readings == IF IsString(s) THEN KeyReadings(s) ELSE {}
    IN  IF readings = {} THEN [ok |-> FALSE, letters |-> <<>>, digits |-> <<>>]
        ELSE LET kh == CHOOSE x \in readings : TRUE
             IN  [ok |-> TRUE, letters |-> SubSeq(s, 1, kh[1]),
                  digits |-> SubSeq(s, kh[1] + kh[2] + 1, Len(s))]

KeyShape(s) == Key(s).ok
KnownCode(letters) == IsString(letters) /\ str_lower(letters) \in DOMAIN KNOWN_TEAMS

StartsWith(s, p) == IsString(s) /\ Len(s) >= Len(p) /\ \A i \in 1..Len(p) : s[i] = p[i]

\* how a call of resolve_task_id ended
ErrorKind(o) ==
    CASE o.kind = "return" -> "none"
      [] o.kind = "raise" -> "exception"
      [] StartsWith(o.stderr, MSG_TASK_ID_REQUIRED) -> "required"
      [] StartsWith(o.stderr, MSG_UNKNOWN_TEAM) -> "unknown_team"
      [] StartsWith(o.stderr, MSG_FAILED_TO_FETCH) -> "fetch_failed"
      [] StartsWith(o.stderr, MSG_ISSUE) -> "not_found"
      [] OTHER -> "other"

\* positions of the issues of the returned list that carry number n
Matches(reply, n) ==
    IF reply.kind = "ok" /\ reply.has_data
    THEN {i \in 1..Len(reply.data) : reply.data[i].issue_number = n}
    ELSE {}

----------------------------------------------------------------------------
(* C1 *)

\* C1: a reference of 36 characters with exactly 4 hyphens is returned
\* unchanged by resolve_team_id and by resolve_task_id, and resolve_task_id
\* makes no request and runs neither the issue-key pattern nor the alias lookup.
C1_UuidPassthrough ==
    ((IsTaskCall \/ IsTeamCall) /\ UuidShape(Ref)) =>
        /\ outcome.kind = "return"
        /\ outcome.value = Ref
        /\ outcome.requests = <<>>
        /\ outcome.steps = {}

\* a UUID-shaped task reference that begins with a blank came back as it was
C1_Witness ==
    /\ IsTaskCall /\ UuidShape(Ref) /\ Ref[1] = " "
    /\ outcome.kind = "return" /\ outcome.value = Ref

----------------------------------------------------------------------------
(* C2 *)

\* C2: a task reference that matches the issue-key pattern and whose lower-cased
\* letter group is no key of the team table ends resolve_task_id with the
\* unknown-team error, and no request has been made.
C2_UnknownTeamNoRequest ==
    IsTaskCall =>
        LET key == Key(Ref)
        IN  (key.ok /\ ~KnownCode(key.letters)) =>
                /\ ErrorKind(outcome) = "unknown_team"
                /\ outcome.exit_code # 0
                /\ outcome.requests = <<>>
                /\ api_reply = NoReply

\* XYZ7 (no hyphen, upper case) was refused as an unknown team
C2_Witness ==
    /\ IsTaskCall /\ Ref = <<"X", "Y", "Z", "7">>
    /\ ErrorKind(outcome) = "unknown_team" /\ outcome.requests = <<>>

----------------------------------------------------------------------------
(* C3 *)

\* C3: for a task reference that matches the pattern with a known team code,
\* resolve_task_id makes exactly one request, GET /teams/<team uuid>/issues,
\* and when the returned list has an issue with the parsed number it returns
\* the id of the first such issue of the list.
C3_OneRequestFirstHit ==
    IsTaskCall =>
        LET key == Key(Ref)
        IN  (key.ok /\ KnownCode(key.letters)) =>
                /\ outcome.requests =
                     <<[method |-> "GET",
                        endpoint |-> PATH_TEAMS \o KNOWN_TEAMS[str_lower(key.letters)]
                                        \o PATH_ISSUES]>>
                /\ LET hits == Matches(api_reply, py_int(key.digits))
                   IN  hits # {} =>
                         /\ outcome.kind = "return"
                         /\ outcome.value = api_reply.data[SetMin(hits)].id

\* the list held two issues numbered 7, Y before X, and Y was returned
C3_Witness ==
    /\ IsTaskCall /\ Ref = <<"I", "K", "A", "-", "7">>
    /\ api_reply.kind = "ok" /\ Len(api_reply.data) = 2
    /\ api_reply.data[1] = Issue(<<"Y">>, 7) /\ api_reply.data[2] = Issue(<<"X">>, 7)
    /\ outcome.kind = "return" /\ outcome.value = <<"Y">>

----------------------------------------------------------------------------
(* C4 *)

\* the digits without their leading zeros (one digit is always kept)
RECURSIVE NoLeadingZeros(_)
NoLeadingZeros(d) ==
    IF Len(d) > 1 /\ d[1] = "0" THEN NoLeadingZeros(Tail(d)) ELSE d

\* a key in its canonical spelling: upper case letters, a hyphen, the number
CanonicalKey(key) == str_upper(key.letters) \o <<"-">> \o NoLeadingZeros(key.digits)

\* the issue list came back and holds no issue with the number of the key
LookupMissed(key) ==
    /\ api_reply.kind = "ok"
    /\ key.ok
    /\ Matches(api_reply, py_int(key.digits)) = {}

\* C4 as stated: when the list holds no issue with the parsed number, the
\* not-found message names the key exactly as the caller wrote it.
C4_NamesKeyAsSupplied ==
    (IsTaskCall /\ LookupMissed(Key(Ref))) =>
        /\ ErrorKind(outcome) = "not_found"
        /\ outcome.stderr = MSG_ISSUE \o Ref \o MSG_NOT_FOUND

\* C4 amended: when the list holds no issue with the parsed number,
\* resolve_task_id exits non-zero with "Issue <KEY> not found", where <KEY> is
\* the key in canonical spelling (team code in upper case, a hyphen, the number
\* without leading zeros); it is the caller's spelling only if that was canonical.
C4_NamesCanonicalKey ==
    (IsTaskCall /\ api_reply.kind = "ok") =>
        LET key == Key(str_strip(Ref))
        IN  LookupMissed(key) =>
                /\ ErrorKind(outcome) = "not_found"
                /\ outcome.exit_code # 0
                /\ outcome.stderr = MSG_ISSUE \o CanonicalKey(key) \o MSG_NOT_FOUND
                /\ (Ref = CanonicalKey(key))
                     <=> (outcome.stderr = MSG_ISSUE \o Ref \o MSG_NOT_FOUND)

\* ika07 was looked up in a list without issue 7 and reported as IKA-7
C4_Witness ==
    /\ IsTaskCall /\ Ref = <<"i", "k", "a", "0", "7">>
    /\ LookupMissed(Key(Ref))
    /\ outcome.stderr = MSG_ISSUE \o <<"I", "K", "A", "-", "7">> \o MSG_NOT_FOUND

----------------------------------------------------------------------------
(* C5 *)

\* the spellings of a key: the letter cases of its team code, with or without
\* the hyphen
Spellings(key) ==
    {v \o h \o key.digits : v \in CaseVariants(key.letters), h \in {<<>>, <<"-">>}}

OutcomeClass(o) == <<o.kind, o.value, ErrorKind(o)>>

\* C5: with the same reply of the collaborator, every spelling of an issue key
\* (any letter case of the team code, with or without the hyphen) ends
\* resolve_task_id the same way: the same UUID or the same kind of error.
\* Every spelling is compared with the lower-case hyphenated one of its key.
C5_SpellingsAgree ==
    (IsTaskCall /\ IsString(Ref) /\ Hyphens(Ref) = 1 /\ Ref = str_lower(Ref)) =>
        LET key == Key(Ref)
        IN  key.ok =>
                \A s \in Spellings(key) :
                    OutcomeClass(resolve_task_id(s, api_reply)) = OutcomeClass(outcome)

\* ika-7 resolved to issue X, as IKA7 does with the same issue list
C5_Witness ==
    /\ IsTaskCall /\ Ref = <<"i", "k", "a", "-", "7">>
    /\ outcome.kind = "return" /\ outcome.value = <<"X">>
    /\ resolve_task_id(<<"I", "K", "A", "7">>, api_reply).value = <<"X">>

----------------------------------------------------------------------------
(* C6 *)

\* C6 as stated: a reference that is neither UUID-shaped nor a match of the
\* pattern is returned unchanged, without a request and without an error.
C6_NonMatchReturned ==
    (IsTaskCall /\ IsString(Ref) /\ ~UuidShape(Ref) /\ ~KeyShape(Ref)) =>
        /\ outcome.kind = "return"
        /\ outcome.value = Ref
        /\ outcome.requests = <<>>

\* C6 amended: a non-empty reference that is not UUID-shaped and that, with its
\* surrounding whitespace removed, does not match the pattern is returned
\* unchanged (whitespace included), without a request and without an error.
C6_NonMatchAfterStripReturned ==
    (IsTaskCall /\ IsString(Ref) /\ Ref # <<>> /\ ~UuidShape(Ref) /\ ~KeyShape(str_strip(Ref))) =>
        /\ outcome.kind = "return"
        /\ outcome.value = Ref
        /\ outcome.requests = <<>>
        /\ api_reply = NoReply

\* a reference with a blank in front and two hyphens came back with its blank
C6_Witness ==
    /\ IsTaskCall /\ IsString(Ref) /\ Len(Ref) > 1 /\ Ref[1] = " " /\ Hyphens(Ref) = 2
    /\ outcome.kind = "return" /\ outcome.value = Ref

----------------------------------------------------------------------------
(* C7 *)

\* the error text api_request forms for a failed request
CollaboratorError(reply) ==
    IF reply.kind = "url_error" THEN MSG_CONNECTION_ERROR \o reply.body
    ELSE MSG_HTTP \o py_str(reply.code) \o MSG_COLON
         \o (IF reply.message # None THEN reply.message ELSE reply.body)

\* C7: when the issue-list request fails, resolve_task_id has made that one
\* request and no other, ends in an error, and the error carries the
\* collaborator's error text unchanged (an exception it does not catch
\* propagates as it is).
C7_FetchFailureSurfaced ==
    (IsTaskCall /\ api_reply.kind \in {"http_error", "url_error", "raise"}) =>
        /\ Len(outcome.requests) = 1
        /\ outcome.kind # "return"
        /\ outcome.exit_code # 0
        /\ api_reply.kind = "raise" => outcome.kind = "raise"
        /\ api_reply.kind # "raise" =>
             /\ outcome.kind = "exit"
             /\ outcome.stderr = MSG_FAILED_TO_FETCH \o CollaboratorError(api_reply)

\* the request was answered 404 with the message "gone", which is what was reported
C7_Witness ==
    /\ IsTaskCall /\ api_reply.kind = "http_error" /\ api_reply.message = TEXT_GONE
    /\ outcome.kind = "exit"
    /\ SubSeq(outcome.stderr, Len(outcome.stderr) - 3, Len(outcome.stderr)) = TEXT_GONE

----------------------------------------------------------------------------
(* C8 *)

\* C8 as stated: a known team code in any letter case, with or without
\* whitespace around it, resolves to the UUID of the team.
C8_KnownCodeAnyCasePadded ==
    (IsTeamCall /\ IsString(Ref) /\ KnownCode(str_strip(Ref))) =>
        outcome.value = KNOWN_TEAMS[str_lower(str_strip(Ref))]

\* C8 amended: a known team code in any letter case and without whitespace
\* around it resolves to the UUID of the team; with whitespace around it, it is
\* returned as it was given.
C8_KnownCodeAnyCase ==
    /\ (IsTeamCall /\ KnownCode(Ref)) =>
          outcome.value = KNOWN_TEAMS[str_lower(Ref)]
    /\ (IsTeamCall /\ IsString(Ref) /\ KnownCode(str_strip(Ref)) /\ Ref # str_strip(Ref)) =>
          outcome.value = Ref

\* IkA resolved to the UUID of the iKanban team
C8_Witness ==
    /\ IsTeamCall /\ Ref = <<"I", "k", "A">>
    /\ outcome.value = IKA_TEAM_ID

----------------------------------------------------------------------------
(* C9 *)

\* C9 as stated: for every string, the empty one included, resolve_team_id
\* returns the mapped UUID when the lower-cased string is in the team table and
\* the string itself otherwise.
C9_TeamOrSelf ==
    (IsTeamCall /\ IsString(Ref)) =>
        /\ outcome.kind = "return"
        /\ outcome.value = IF KnownCode(Ref) THEN KNOWN_TEAMS[str_lower(Ref)] ELSE Ref

\* C9 amended: resolve_team_id never fails; for every non-empty string it
\* returns the mapped UUID when the lower-cased string is in the team table and
\* the string itself otherwise, and for the empty string it returns None.
C9_TeamOrSelfOrNone ==
    (IsTeamCall /\ IsString(Ref)) =>
        /\ outcome.kind = "return"
        /\ outcome.value = IF Ref = <<>> THEN None
                           ELSE IF KnownCode(Ref) THEN KNOWN_TEAMS[str_lower(Ref)]
                           ELSE Ref

\* an unknown code in upper case came back in upper case
C9_Witness ==
    /\ IsTeamCall /\ Ref = <<"X", "Y", "Z">>
    /\ outcome.kind = "return" /\ outcome.value = Ref

----------------------------------------------------------------------------
(* C10 *)

ExpectedDefault(team_id) ==
    IF team_id = IKA_TEAM_ID THEN IKA_FRONTEND_ID
    ELSE IF team_id = SCH_TEAM_ID THEN SCH_BACKEND_ID
    ELSE None

\* C10: with an empty or missing project reference resolve_project_id returns
\* the default project of the given team id, and None when the team has no
\* default project or no team id is given.
C10_DefaultProject ==
    (IsProjectCall /\ Falsy(call.args[1])) =>
        /\ outcome.kind = "return"
        /\ outcome.value = ExpectedDefault(call.args[2])

\* no project was named for the Schild team and its backend project came back
C10_Witness ==
    /\ IsProjectCall /\ call.args = <<None, SCH_TEAM_ID>>
    /\ outcome.value = SCH_BACKEND_ID

----------------------------------------------------------------------------
(* C11, C12 *)

\* the alias table that resolve_project_id consults for a team id
AliasTable(team_id) ==
    IF team_id = IKA_TEAM_ID THEN IKA_PROJECTS
    ELSE IF team_id = SCH_TEAM_ID THEN SCH_PROJECTS
    ELSE [k \in {} |-> None]

\* the project reference is, in lower case, an alias of the given team
IsAliasOf(ref, team_id) == ~Falsy(ref) /\ str_lower(ref) \in DOMAIN AliasTable(team_id)
IsPlaceholder(entry) == StartsWith(entry, USE_PREFIX)
IsPlaceholderAlias(ref, team_id) ==
    IsAliasOf(ref, team_id) /\ IsPlaceholder(AliasTable(team_id)[str_lower(ref)])
IsStaticAlias(ref, team_id) ==
    IsAliasOf(ref, team_id) /\ ~IsPlaceholder(AliasTable(team_id)[str_lower(ref)])

\* C11: when the lower-cased project reference is an alias of the given team
\* whose table entry is a dynamic placeholder, resolve_project_id yields None,
\* so neither the placeholder nor the bare alias name comes back as a project id.
C11_PlaceholderYieldsNone ==
    (IsProjectCall /\ IsPlaceholderAlias(Ref, call.args[2])) =>
        /\ outcome.kind = "return"
        /\ outcome.value = None

\* C12: for a non-empty project reference resolve_project_id looks the
\* lower-cased reference up only in the alias table of the given team id: a
\* static alias of that team returns its UUID in any letter case, and every
\* other reference (unknown name, alias of another team, no team id) is
\* returned unchanged.
C12_StaticAliasOrSelf ==
    (IsProjectCall /\ ~Falsy(Ref)) =>
        /\ outcome.kind = "return"
        /\ outcome.value = IF IsStaticAlias(Ref, call.args[2])
                           THEN AliasTable(call.args[2])[str_lower(Ref)]
                           ELSE Ref

\* "Infra" is an alias of Schild only and was looked up for the iKanban team
C12_Witness ==
    /\ IsProjectCall /\ call.args = <<<<"I", "n", "f", "r", "a">>, IKA_TEAM_ID>>
    /\ outcome.value = Ref

----------------------------------------------------------------------------
(* C13, C14 *)

IsPriorityCall == Done /\ call.fn = "parse_priority"
\* the value parse_priority was called with
PriorityArg == call.args[1]

\* the priority a name stands for
NameValue(name) ==
    CASE name = <<"n", "o", "n", "e">> -> 0
      [] name = <<"u", "r", "g", "e", "n", "t">> -> 1
      [] name = <<"h", "i", "g", "h">> -> 2
      [] name = <<"m", "e", "d", "i", "u", "m">> -> 3
      [] name = <<"l", "o", "w">> -> 4
PriorityNames ==
    {<<"n", "o", "n", "e">>, <<"u", "r", "g", "e", "n", "t">>, <<"h", "i", "g", "h">>,
     <<"m", "e", "d", "i", "u", "m">>, <<"l", "o", "w">>}

\* the reference function of the priority vocabulary
ReferencePriority(p) ==
    CASE p.t = "int" -> p
      [] p.t = "NoneType" -> PyNone
      [] p.t = "str" ->
           IF str_lower(p.v) \in PriorityNames THEN PyInt(NameValue(str_lower(p.v)))
           ELSE IF int_of_str(p.v).ok THEN PyInt(int_of_str(p.v).n)
           ELSE PyNone

\* C13: parse_priority equals the reference function: an integer is returned
\* as it is; a string is lower-cased and mapped through none=0, urgent=1,
\* high=2, medium=3, low=4; a string that is no name but parses as an integer
\* returns that integer; every other string, and None, returns None.
C13_EqualsReference ==
    IsPriorityCall =>
        /\ outcome.kind = "return"
        /\ outcome.value = ReferencePriority(PriorityArg)

\* "High" was given to the copy in ikanban.py and 2 came back
C13_Witness ==
    /\ IsPriorityCall /\ call.args = <<PyStr(<<"H", "i", "g", "h">>), "ikanban.py">>
    /\ outcome.value = PyInt(2)

\* C14: every priority parse_priority returns other than None is an integer in
\* 0..4, and the five names none, urgent, high, medium, low map one-to-one
\* onto 0..4.
C14_PriorityInRange ==
    /\ IsPriorityCall /\ outcome.value # PyNone =>
            outcome.value.t = "int" /\ outcome.value.v \in 0..4
    /\ DOMAIN PRIORITIES = PriorityNames
    /\ \A n \in 0..4 : \E name \in PriorityNames :
            /\ PRIORITIES[name] = n
            /\ \A other \in PriorityNames : PRIORITIES[other] = n => other = name

----------------------------------------------------------------------------
(* C15, C16, C17 *)

IsCliCall == Done /\ call.fn \in {"main", "cli_main"}
IsToolCall == Done /\ call.fn \in {"handle_tool", "server_handler"}
\* the call is an invocation of a create or update command or tool
IsCreateOrUpdate ==
    \/ IsCliCall /\ call.args.command \in {"create", "update"}
    \/ IsToolCall /\ call.args.name \in {"ikanban_create_issue", "ikanban_update_task",
                                         "vk_create_issue", "vk_update_task"}

\* the priority and status the caller supplied, PyNone and None when absent
SuppliedPriority == IF call.fn \in {"main", "cli_main"} THEN call.args.priority
                    ELSE Get(call.args.arguments, "priority")
SuppliedStatus == IF call.fn \in {"main", "cli_main"} THEN call.args.status
                  ELSE Get(call.args.arguments, "status")
\* the same call with no priority supplied
WithoutPriority ==
    IF call.fn \in {"main", "cli_main"} THEN [call EXCEPT !.args.priority = PyNone]
    ELSE [call EXCEPT !.args.arguments =
             [k \in DOMAIN call.args.arguments \ {"priority"} |-> call.args.arguments[k]]]

\* the JSON body of a request has the field
Carries(request, field) == "data" \in DOMAIN request /\ field \in DOMAIN request.data

\* C15: in every create and update path (the CLI commands and the MCP tools of
\* cli.py, server.py and ikanban.py) a supplied priority that is neither a
\* known name nor an integer is silently dropped: no request payload has a
\* priority field, and the operation proceeds as it does without a priority.
C15_UnparseablePriorityDropped ==
    (IsCreateOrUpdate /\ SuppliedPriority # PyNone /\ ReferencePriority(SuppliedPriority) = PyNone) =>
        /\ \A i \in DOMAIN outcome.requests : ~Carries(outcome.requests[i], "priority")
        /\ outcome = RunCall(WithoutPriority, api_reply)

\* the status a request carries, in its body or in its query; None when it
\* carries none
RequestStatus(request) ==
    LET e == request.endpoint
        at == {i \in 1..(Len(e) - Len(QUERY_STATUS) + 1) : SubSeq(e, i, i + Len(QUERY_STATUS) - 1) = QUERY_STATUS}
    IN  IF Carries(request, "status") THEN request.data["status"]
        ELSE IF at # {} THEN SubSeq(e, SetMin(at) + Len(QUERY_STATUS), Len(e))
        ELSE None

StatusNames ==
    {<<"t", "o", "d", "o">>, <<"i", "n", "p", "r", "o", "g", "r", "e", "s", "s">>,
     <<"i", "n", "r", "e", "v", "i", "e", "w">>, <<"d", "o", "n", "e">>,
     <<"c", "a", "n", "c", "e", "l", "l", "e", "d">>}

\* C16: every request that carries a status (issue creation, task update,
\* task-list filter; CLI and MCP) carries one of todo, inprogress, inreview,
\* done, cancelled, and a call with a status outside this set makes no request.
C16_StatusInVocabulary ==
    (IsCliCall \/ IsToolCall) =>
        /\ \A i \in DOMAIN outcome.requests :
              RequestStatus(outcome.requests[i]) \in StatusNames \cup {None}
        /\ (SuppliedStatus # None /\ SuppliedStatus \notin StatusNames) => outcome.requests = <<>>

\* the short identifier of a team id, None for an id of no known team
ShortIdentifier(team_id) ==
    IF team_id = IKA_TEAM_ID THEN <<"I", "K", "A">>
    ELSE IF team_id = SCH_TEAM_ID THEN <<"S", "C", "H">>
    ELSE None

\* C17: whenever the output of a command or tool carries an issue key for a
\* task, the task's team and issue number are not null and the key is the
\* team's short identifier, a hyphen and the issue number.
C17_IssueKeyWellFormed ==
    (IsCliCall \/ IsToolCall) =>
        \A i \in DOMAIN outcome.value.keys :
            LET key == outcome.value.keys[i]
            IN  /\ key.team_id # None
                /\ key.issue_number # NullNumber
                /\ ShortIdentifier(key.team_id) # None
                /\ key.text = ShortIdentifier(key.team_id) \o <<"-">> \o py_str(key.issue_number)


-----------------------------------------------------------------------------
(* C19: the network calls of one CLI command *)

\* p occurs in s
Occurs(p, s) == \E i \in 1..(Len(s) - Len(p) + 1) : SubSeq(s, i, i + Len(p) - 1) = p
\* the request fetches the issue list of a team
IsIssueListRequest(request) ==
    /\ request.method = "GET"
    /\ StartsWith(request.endpoint, PATH_TEAMS)
    /\ Len(request.endpoint) >= Len(PATH_ISSUES)
    /\ SubSeq(request.endpoint, Len(request.endpoint) - Len(PATH_ISSUES) + 1, Len(request.endpoint)) = PATH_ISSUES
\* the request searches the documents of a team by title
IsSearchRequest(request) == Occurs(PATH_DOCUMENTS \o QUERY_SEARCH, request.endpoint)

\* the requests of the command made to resolve its task reference: the
\* issue-list fetches of a command that does not list issues itself
ResolutionRequests ==
    IF call.args.command = "issues" THEN {}
    ELSE {i \in DOMAIN outcome.requests : IsIssueListRequest(outcome.requests[i])}
\* the requests made to find a document by its title on behalf of upload or link
SearchRequests ==
    IF call.args.command \notin {"upload", "link"} THEN {}
    ELSE {i \in DOMAIN outcome.requests : IsSearchRequest(outcome.requests[i])}
\* the other requests: the operation the command was asked for
OperationRequests == DOMAIN outcome.requests \ (ResolutionRequests \cup SearchRequests)

\* the titles the command has to look up: one per document the upload reply
\* lists, one per document reference of link that is not a UUID
TitlesToSearch ==
    CASE call.args.command = "upload" ->
           IF api_reply # <<>> /\ api_reply[1].kind = "ok" /\ api_reply[1].has_data
           THEN Len(api_reply[1].data) ELSE 0
      [] call.args.command = "link" ->
           Cardinality({i \in DOMAIN call.args.document_ids : ~UuidShape(call.args.document_ids[i])})
      [] OTHER -> 0

\* C19 as stated: every CLI command invocation makes at most two network
\* calls, at most one to resolve the task reference and at most one for the
\* requested operation.
C19_AtMostTwoCalls ==
    IsCliCall =>
        /\ Len(outcome.requests) <= 2
        /\ Cardinality(ResolutionRequests) <= 1
        /\ Cardinality(OperationRequests) <= 1

\* C19 amended: a CLI command makes at most one network call to resolve its
\* task reference; every command but upload and link makes at most one more,
\* for the requested operation, two calls in total; upload makes at most two
\* operation calls (the upload, the link) and link at most one, and both make
\* in addition at most one document search per title to look up.
C19_CallsPerCommand ==
    IsCliCall =>
        /\ Cardinality(ResolutionRequests) <= 1
        /\ Cardinality(SearchRequests) <= TitlesToSearch
        /\ Cardinality(OperationRequests) <= (IF call.args.command = "upload" THEN 2 ELSE 1)
        /\ call.args.command \notin {"upload", "link"} => Len(outcome.requests) <= 2

\* an upload that resolved an issue key, searched two titles and linked
C19_Witness ==
    /\ IsCliCall /\ call.args.command = "upload"
    /\ Cardinality(ResolutionRequests) = 1
    /\ Cardinality(SearchRequests) = 2
    /\ Cardinality(OperationRequests) = 2

-----------------------------------------------------------------------------
(* C18, C20: the MCP server loops *)

\* the loop body has finished with the line at the position
Handled(k) == k < Len(stdin) \/ pc # "handle"
\* the positions in stdout of the responses to the line at the position
ResponsesTo(k) == {j \in DOMAIN stdout : stdout[j].request = k}

\* C18: in each MCP server loop the lines are handled one at a time in input
\* order: the response to request k is written after line k and before line
\* k+1 is read, the responses are in the order of their requests, and each
\* carries the id of the request it answers.
C18_SequentialWithIds ==
    server \in Servers =>
        /\ \A j \in DOMAIN stdout :
              /\ stdout[j].read = stdout[j].request
              /\ stdout[j].id = stdin[stdout[j].request].id
        /\ \A i, j \in DOMAIN stdout : i < j => stdout[i].request < stdout[j].request

\* C20: in the unified ikanban MCP server every tools/call line that has been
\* handled has exactly one response, which carries its id, and the server is
\* ready to read the next line or has read it: handling the call has not ended
\* the process.
C20_EveryToolsCallAnswered ==
    server = "ikanban.py" =>
        \A k \in DOMAIN stdin :
            (IsToolsCall(stdin[k]) /\ Handled(k)) =>
                /\ Cardinality(ResponsesTo(k)) = 1
                /\ \A j \in ResponsesTo(k) : stdout[j].id = stdin[k].id
                /\ k = Len(stdin) => pc \in {"read", "ended"}

----------------------------------------------------------------------------
(* C21: a line that is not valid JSON *)

\* C21: in every MCP server loop a line that is not valid JSON and has been
\* handled has exactly one response, with id null and code -32700, and the
\* loop is ready to read the next line or has read it.
C21_InvalidJsonAnswered ==
    server \in Servers =>
        \A k \in DOMAIN stdin :
            (stdin[k].kind = "invalid" /\ Handled(k)) =>
                /\ Cardinality(ResponsesTo(k)) = 1
                /\ \A j \in ResponsesTo(k) :
                      stdout[j].id = NullNumber /\ stdout[j].code = PARSE_ERROR
                /\ k = Len(stdin) => pc \in {"read", "ended"}

----------------------------------------------------------------------------
(* C22: the copies of the resolution helpers in cli.py, server.py and ikanban.py *)

\* the three copies return the same result for the input of the call
C22_SameResults ==
    /\ IsTeamCall =>
          /\ outcome.value = cli_resolve_team_id(Ref)
          /\ outcome.value = server_resolve_team_id(Ref)
    /\ IsProjectCall =>
          /\ outcome.value = cli_resolve_project_id(Ref, call.args[2])
          /\ outcome.value = server_resolve_project_id(Ref, call.args[2])
    /\ IsPriorityCall =>
          \A file \in SourceFiles : outcome.value = ParsePriorityOf(file, PriorityArg)

\* the alias tables of the IKA team in the three files map the alias of the
\* call to the same value; IKA_PROJECTS is the table of ikanban.py and of
\* server.py, CLI_IKA_PROJECTS the one of cli.py
C22_SameTables ==
    (IsProjectCall /\ ~Falsy(Ref) /\ str_lower(Ref) \in DOMAIN IKA_PROJECTS \cup DOMAIN CLI_IKA_PROJECTS) =>
        /\ str_lower(Ref) \in DOMAIN IKA_PROJECTS \cap DOMAIN CLI_IKA_PROJECTS
        /\ CLI_IKA_PROJECTS[str_lower(Ref)] = IKA_PROJECTS[str_lower(Ref)]

\* C22: the copies of resolve_team_id, resolve_project_id and parse_priority
\* in cli.py, server.py and ikanban.py return the same result for every input,
\* and their alias tables map every alias to the same value.
C22_Interchangeable == C22_SameResults /\ C22_SameTables

----------------------------------------------------------------------------
(* C23: project aliases in the list-tasks and move-task tools *)

\* the project a list-tasks or move-task tool was asked for: the default of
\* list-tasks when none is passed
AskedProject ==
    IF call.args.name \in {"ikanban_list_tasks", "vk_list_tasks"}
    THEN DictGet(call.args.arguments, "project", DEFAULT_PROJECT)
    ELSE Get(call.args.arguments, "project_id")

\* the project UUIDs the alias tables have for the name, in any letter case
AliasUuids(name) ==
    {t[str_lower(name)] : t \in {x \in {IKA_PROJECTS, SCH_PROJECTS} : str_lower(name) \in DOMAIN x}}
    \ {USE_DYNAMIC_LOOKUP}

\* the project a request names: in its payload or in its query
RequestProject(request) ==
    LET e == request.endpoint
        rest == SubSeq(e, Len(PATH_TASKS_OF_PROJECT) + 1, Len(e))
        amp == {i \in DOMAIN rest : rest[i] = "&"}
    IN  IF Carries(request, "project_id") THEN request.data["project_id"]
        ELSE IF StartsWith(e, PATH_TASKS_OF_PROJECT)
        THEN IF amp = {} THEN rest ELSE SubSeq(rest, 1, SetMin(amp) - 1)
        ELSE None

\* C23: when the list-tasks or move-task MCP tool is given a known project
\* alias name (the default frontend of list-tasks included), every request it
\* sends names the project UUID of the alias and never the alias name itself.
C23_AliasSentAsUuid ==
    (/\ IsToolCall
     /\ call.args.name \in {"ikanban_list_tasks", "vk_list_tasks", "ikanban_move_task", "vk_move_task"}
     /\ ~Falsy(AskedProject)
     /\ AliasUuids(AskedProject) # {}) =>
        \A i \in DOMAIN outcome.requests :
            /\ RequestProject(outcome.requests[i]) # AskedProject
            /\ RequestProject(outcome.requests[i]) \in AliasUuids(AskedProject)

----------------------------------------------------------------------------
(* C24: an update without a field to update *)

IsUpdate ==
    \/ IsCliCall /\ call.args.command = "update"
    \/ IsToolCall /\ call.args.name \in {"ikanban_update_task", "vk_update_task"}

\* the caller supplied none of status, title, description, priority,
\* assignee and due date
NoFieldSupplied ==
    IF call.fn \in {"main", "cli_main"}
    THEN /\ call.args.status = None /\ call.args.title = None /\ call.args.description = None
         /\ call.args.priority = PyNone /\ call.args.assignee = None /\ call.args.due_date = None
    ELSE DOMAIN call.args.arguments \cap
            {"status", "title", "description", "priority", "assignee_id", "due_date"} = {}

\* the task to update is given by its UUID
TaskGivenByUuid ==
    IF call.fn \in {"main", "cli_main"} THEN IsUuidShaped(call.args.task_id)
    ELSE IsUuidShaped(Get(call.args.arguments, "task_id"))

\* the operation ended with the error that tells that nothing is to update
EndedWithNoUpdates ==
    IF call.fn \in {"main", "cli_main"}
    THEN outcome.kind = "exit" /\ outcome.stderr = MSG_NO_UPDATES
    ELSE /\ outcome.kind = "return"
         /\ "error" \in DOMAIN outcome.value.result
         /\ outcome.value.result["error"] = MSG_NO_UPDATES_PROVIDED

\* C24: an update operation that supplies no updatable field sends no PUT
\* request and, the task being given, ends with the error that no updates were
\* given; in the update commands of cli.py and ikanban.py and in the update
\* tools of server.py and ikanban.py.
C24_NoUpdatesNoPut ==
    (IsUpdate /\ NoFieldSupplied) =>
        /\ \A i \in DOMAIN outcome.requests : outcome.requests[i].method # "PUT"
        /\ TaskGivenByUuid => EndedWithNoUpdates

----------------------------------------------------------------------------
(* C25: the confirmation of the delete command *)

\* the positions of the DELETE requests among the requests of the call
DeleteRequests == {i \in DOMAIN outcome.requests : outcome.requests[i].method = "DELETE"}
IsDeleteWithoutForce == IsCliCall /\ call.args.command = "delete" /\ ~call.args.force
\* the line the user answered the prompt with is y or Y
AnsweredYes == str_lower(call.args.confirm) = <<"y">>

\* C25: in the delete command of ikanban.py and of cli.py run without --force
\* a DELETE request is sent only when the answer to the prompt is y in either
\* letter case, and it is then the last request of the command; with any other
\* answer the command prints Cancelled and returns, and no DELETE request is sent.
C25_DeleteOnlyAfterYes ==
    IsDeleteWithoutForce =>
        /\ DeleteRequests # {} => AnsweredYes
        /\ DeleteRequests \subseteq {Len(outcome.requests)}
        /\ (AnsweredYes /\ outcome.kind = "return") => DeleteRequests # {}
        /\ (~AnsweredYes /\ outcome.kind = "return") => outcome.value = Printed(MSG_CANCELLED)
        /\ outcome.value = Printed(MSG_CANCELLED) => ~AnsweredYes /\ outcome.kind = "return"

\* the answer Y to the prompt of delete IKA-7 of ikanban.py: the key is
\* resolved with one request and the DELETE request follows
C25_Witness ==
    /\ IsDeleteWithoutForce /\ call.fn = "main"
    /\ call.args.confirm = <<"Y">>
    /\ Len(outcome.requests) = 2
    /\ DeleteRequests = {2}
----------------------------------------------------------------------------
(* The command line of src/mcp/turso_sync.py: push, pull and the per-team *)
(* sync.  turso is the state of one run: the command line, the            *)
(* environment, the local SQLite database, the locals of the export and   *)
(* pull loops, and a log of what the Turso CLI and the local database     *)
(* were asked to do.                                                       *)

\* number of tables of EXPORT_TABLES the model keeps
MaxTables == 2
EXPORT_TABLES == SubSeq(<<"teams", "projects", "team_projects", "team_members">>, 1, MaxTables)
\* rows of one INSERT batch of handle_turso_export_data
BATCH_SIZE == 50
\* a table the local database does not have
MISSING == -1
\* the rows a local table may hold: none, one batch, more than one batch
LocalRows == {MISSING, 0, 1, BATCH_SIZE + 1}
\* the rows the Turso CLI may print for a table
MaxRemoteRows == 1
TEAM_SLUG == "schild"

\* range(0, len(statements), batch_size)
Batches(rows) == (rows + BATCH_SIZE - 1) \div BATCH_SIZE

NoResult == [kind |-> "none", success |-> FALSE, total_rows |-> 0, tables |-> <<>>, errors |-> <<>>]
ErrorResult == [NoResult EXCEPT !.kind = "error"]
\* the locals total_rows, exported_tables / pulled_tables and errors
LoopStart == [total_rows |-> 0, tables |-> <<>>, errors |-> <<>>]
\* the dict the two loops return
LoopResult(kind, loop) ==
    [kind |-> kind, success |-> Len(loop.errors) = 0, total_rows |-> loop.total_rows,
     tables |-> loop.tables, errors |-> loop.errors]

TursoInit ==
    /\ \E command \in {"push", "pull", "sync"}, team \in {"None", TEAM_SLUG},
          team_db \in BOOLEAN, db_name \in BOOLEAN,
          local \in [Range(EXPORT_TABLES) -> LocalRows] :
            /\ command # "sync" => team = "None" /\ team_db
            /\ turso = [pc |-> "cli_main", command |-> command, team |-> team,
                        team_db |-> team_db, db_name |-> db_name, local |-> local,
                        direction |-> "none", i |-> 0, loop |-> LoopStart,
                        schema |-> NoResult, migrations |-> NoResult,
                        push_result |-> NoResult, pull_result |-> NoResult,
                        pushed |-> [t \in Range(EXPORT_TABLES) |-> 0], failed |-> {}, cleared |-> {},
                        exit_code |-> NullNumber]
    /\ db = NOT_RUNNING /\ setup = NOT_RUNNING /\ vibe = NOT_RUNNING
    /\ call = NO_CALL /\ api_reply = NoReply /\ outcome = Pending
    /\ server = NO_SERVER /\ pc = "none" /\ stdin = <<>> /\ line = 0 /\ stdout = <<>>

TursoUnchanged == UNCHANGED <<call_vars, mcp_vars, db, setup, vibe>>

\* sys.exit(code)
TursoExit(t, code) == [t EXCEPT !.pc = "exit", !.exit_code = code]

\* cli_main up to the first handler: the command is one of push, pull, sync
TursoCliMain ==
    /\ turso.pc = "cli_main"
    /\ turso' = CASE turso.command = "push" -> [turso EXCEPT !.pc = "full_sync", !.direction = "push"]
                  [] turso.command = "pull" -> [turso EXCEPT !.pc = "pull_start", !.direction = "pull"]
                  [] turso.command = "sync" ->
                        IF turso.team = "None" THEN TursoExit(turso, EXIT_FAILURE)
                        ELSE [turso EXCEPT !.pc = "team_sync", !.direction = "push"]
    /\ TursoUnchanged

\* what handle_team_sync returns before it calls a handler
handle_team_sync_refused(t) == ~t.team_db \/ ~t.db_name

\* a sync that pulls whatever the push reported
TursoAfter_PullsAnyway(t, result) ==
    IF t.direction = "push"
    THEN IF t.command = "sync"
         THEN [t EXCEPT !.push_result = result, !.pc = "team_sync", !.direction = "pull"]
         ELSE TursoExit([t EXCEPT !.push_result = result], IF result.success THEN 0 ELSE EXIT_FAILURE)
    ELSE TursoExit([t EXCEPT !.pull_result = result], IF result.success THEN 0 ELSE EXIT_FAILURE)

\* the end of cli_main once a handler has returned its result
TursoAfter(t, result) ==
    IF t.direction = "push"
    THEN IF t.command = "sync" /\ result.success
         THEN [t EXCEPT !.push_result = result, !.pc = "team_sync", !.direction = "pull"]
         ELSE TursoExit([t EXCEPT !.push_result = result], IF result.success THEN 0 ELSE EXIT_FAILURE)
    ELSE TursoExit([t EXCEPT !.pull_result = result], IF result.success THEN 0 ELSE EXIT_FAILURE)

\* handle_team_sync(team_slug, direction) up to the handler it calls
HandleTeamSync ==
    /\ turso.pc = "team_sync"
    /\ turso' = IF handle_team_sync_refused(turso) THEN TursoAfter(turso, ErrorResult)
                ELSE IF turso.direction = "push" THEN [turso EXCEPT !.pc = "full_sync"]
                ELSE [turso EXCEPT !.pc = "pull_start"]
    /\ TursoUnchanged

\* handle_turso_full_sync before the data: the schema and the migration
\* records are pushed, each with the success the Turso CLI reports;
\* reading _sqlx_migrations may raise
HandleTursoFullSync ==
    /\ turso.pc = "full_sync"
    /\ \E schema \in BOOLEAN, migrations \in {"ok", "failed", "raise"} :
        turso' =
            IF migrations = "raise" /\ turso.db_name
            THEN TursoExit([turso EXCEPT !.schema = [ErrorResult EXCEPT !.success = schema]], EXIT_FAILURE)
            ELSE [turso EXCEPT !.schema = [ErrorResult EXCEPT !.success = schema /\ turso.db_name],
                               !.migrations = [ErrorResult EXCEPT !.success = migrations = "ok" /\ turso.db_name],
                               !.pc = "export_data"]
    /\ TursoUnchanged

\* handle_turso_export_data up to its loop
HandleTursoExportData ==
    /\ turso.pc = "export_data"
    /\ turso' = IF ~turso.db_name THEN [turso EXCEPT !.pc = "full_sync_return", !.loop = LoopStart, !.i = 0]
                ELSE [turso EXCEPT !.pc = "export_table", !.loop = LoopStart, !.i = 1]
    /\ TursoUnchanged

\* the locals after a batch that the Turso CLI refused: the error is kept,
\* break leaves the loop of batches, and the two statements after that loop run
export_break(loop, table, rows) ==
    [total_rows |-> loop.total_rows + rows,
     tables |-> Append(loop.tables, [table |-> table, rows |-> rows]),
     errors |-> Append(loop.errors, table)]
\* the locals after the body of the loop of handle_turso_export_data for a
\* table with rows, whose batches were pushed up to the batch failed_batch
\* (0: all were) that the Turso CLI refused
export_table(loop, table, rows, failed_batch) ==
    IF rows = MISSING THEN [loop EXCEPT !.errors = Append(@, table)]
    ELSE IF rows = 0 THEN loop
    ELSE IF failed_batch # 0 THEN export_break(loop, table, rows)
    ELSE [loop EXCEPT !.total_rows = @ + rows,
                      !.tables = Append(@, [table |-> table, rows |-> rows])]

\* one round of the loop over the tables in handle_turso_export_data
ExportTable ==
    /\ turso.pc = "export_table"
    /\ turso.i <= Len(EXPORT_TABLES)
    /\ LET table == EXPORT_TABLES[turso.i]
           rows == turso.local[table]
       IN \E failed_batch \in 0..(IF rows > 0 THEN Batches(rows) ELSE 0) :
            turso' = [turso EXCEPT
                        !.loop = export_table(turso.loop, table, rows, failed_batch),
                        !.pushed[table] = IF rows <= 0 THEN 0
                                          ELSE IF failed_batch = 0 THEN Batches(rows) ELSE failed_batch - 1,
                        !.failed = IF failed_batch # 0 THEN @ \cup {table} ELSE @,
                        !.i = @ + 1]
    /\ TursoUnchanged

\* the return of handle_turso_export_data
ExportReturn ==
    /\ turso.pc = "export_table"
    /\ turso.i > Len(EXPORT_TABLES)
    /\ turso' = [turso EXCEPT !.pc = "full_sync_return"]
    /\ TursoUnchanged

\* what handle_turso_export_data returned
ExportResult(t) == IF t.i = 0 THEN ErrorResult ELSE LoopResult("export_data", t.loop)

\* the return of handle_turso_full_sync: all(r.get("success", False) ...)
FullSyncReturn ==
    /\ turso.pc = "full_sync_return"
    /\ turso' = TursoAfter(turso,
                    [ExportResult(turso) EXCEPT
                        !.kind = "full_sync",
                        !.success = turso.schema.success /\ turso.migrations.success /\ @])
    /\ TursoUnchanged

\* handle_turso_pull up to its loop
HandleTursoPull ==
    /\ turso.pc = "pull_start"
    /\ turso' = IF ~turso.db_name THEN TursoAfter(turso, ErrorResult)
                ELSE [turso EXCEPT !.pc = "pull_table", !.loop = LoopStart, !.i = 1]
    /\ TursoUnchanged

\* one round of the loop over the tables in handle_turso_pull: fetched is
\* what SELECT * gave ("failed", or the number of lines after the header),
\* inserted the number of rows the local database took
PullTable ==
    /\ turso.pc = "pull_table"
    /\ turso.i <= Len(EXPORT_TABLES)
    /\ LET table == EXPORT_TABLES[turso.i]
       IN \E fetched \in {MISSING} \cup (0..MaxRemoteRows) :
          \E inserted \in 0..(IF fetched > 0 /\ turso.local[table] # MISSING THEN fetched ELSE 0) :
            turso' =
                IF fetched = MISSING
                THEN [turso EXCEPT !.loop.errors = Append(@, table), !.i = @ + 1]
                ELSE IF fetched = 0 THEN [turso EXCEPT !.i = @ + 1]
                ELSE IF turso.local[table] = MISSING
                THEN [turso EXCEPT !.loop.errors = Append(@, table), !.i = @ + 1]
                ELSE [turso EXCEPT !.cleared = @ \cup {table},
                                   !.local[table] = inserted,
                                   !.loop.total_rows = @ + inserted,
                                   !.loop.tables = Append(@, [table |-> table, rows |-> inserted]),
                                   !.i = @ + 1]
    /\ TursoUnchanged

\* the return of handle_turso_pull
PullReturn ==
    /\ turso.pc = "pull_table"
    /\ turso.i > Len(EXPORT_TABLES)
    /\ turso' = TursoAfter(turso, LoopResult("pull", turso.loop))
    /\ TursoUnchanged

TursoNext ==
    \/ TursoCliMain
    \/ HandleTeamSync
    \/ HandleTursoFullSync
    \/ HandleTursoExportData
    \/ ExportTable
    \/ ExportReturn
    \/ FullSyncReturn
    \/ HandleTursoPull
    \/ PullTable
    \/ PullReturn

TursoSpec == TursoInit /\ [][TursoNext]_vars

----------------------------------------------------------------------------
(* C26: the per-team sync pulls only after a successful push *)

IsTeamSync == turso.pc # "none" /\ turso.command = "sync"
\* handle_team_sync(team_slug, "pull") was called, or a local table was cleared
PullBegan == turso.direction = "pull" \/ turso.pull_result.kind # "none" \/ turso.cleared # {}
PushSucceeded == turso.push_result.kind # "none" /\ turso.push_result.success
PushFailed == turso.push_result.kind # "none" /\ ~turso.push_result.success

\* C26: in the sync command of turso_sync.py the pull begins only after the
\* push has returned a result reporting success; when the push reports failure
\* the command exits with a non-zero code at once, no pull is made and no local
\* table is cleared.
C26_PullOnlyAfterPush ==
    IsTeamSync =>
        /\ PullBegan => PushSucceeded
        /\ PushFailed =>
            /\ turso.pc = "exit" /\ turso.exit_code # 0
            /\ turso.pull_result.kind = "none" /\ turso.cleared = {}
        /\ (turso.pc = "exit" /\ turso.exit_code = 0) => PushSucceeded /\ turso.pull_result.success

\* a sync whose push failed on a refused batch of a table with rows: it has
\* exited with code 1 and the local tables are as they were
C26_Witness ==
    /\ IsTeamSync /\ PushFailed
    /\ turso.push_result.kind = "full_sync"
    /\ turso.failed # {}
    /\ turso.exit_code = EXIT_FAILURE
    /\ \A t \in Range(EXPORT_TABLES) : turso.local[t] > 0

----------------------------------------------------------------------------
(* C27: the result of handle_turso_export_data *)

\* handle_turso_export_data has gone through every table
ExportDone == turso.pc = "full_sync_return" /\ turso.i > Len(EXPORT_TABLES)
\* every batch of INSERTs of the table was pushed and none was refused
FullyPushed(table) ==
    /\ turso.local[table] > 0
    /\ table \notin turso.failed
    /\ turso.pushed[table] = Batches(turso.local[table])
\* the tables that produced an error: a refused batch, or a failed read
ErrorTables == turso.failed \cup {t \in Range(EXPORT_TABLES) : turso.local[t] = MISSING}
RECURSIVE SumRows(_)
SumRows(tables) == IF tables = <<>> THEN 0 ELSE Head(tables).rows + SumRows(Tail(tables))
\* the rows of the tables all of whose batches were pushed
PushedRows == SumRows(SelectSeq(ExportResult(turso).tables, LAMBDA e : FullyPushed(e.table)))

\* C27 (success flag): the result reports success exactly when no table
\* produced an error.
C27_SuccessIffNoError ==
    ExportDone => (ExportResult(turso).success <=> ErrorTables = {})

\* C27: in the result of handle_turso_export_data a table is listed among the
\* exported tables, and its rows are counted in total_rows, only if every
\* batch of its INSERT statements was pushed successfully; the success flag is
\* true exactly when no table produced an error.
C27_ExportedOnlyIfPushed ==
    ExportDone =>
        /\ \A k \in DOMAIN ExportResult(turso).tables : FullyPushed(ExportResult(turso).tables[k].table)
        /\ ExportResult(turso).total_rows = PushedRows
        /\ ExportResult(turso).success <=> ErrorTables = {}

----------------------------------------------------------------------------
(* The tools db_query and db_execute of src/mcp/db_server.py.  db is the   *)
(* state of one call: the tool, its SQL argument, the environment, the     *)
(* result, and the statements the database has received.                   *)

\* needle in hay
str_in(needle, hay) ==
    \E i \in 0..(Len(hay) - Len(needle)) : SubSeq(hay, i + 1, i + Len(needle)) = needle

\* dangerous, handle_db_query
DANGEROUS == {<<"d", "r", "o", "p", " ", "d", "a", "t", "a", "b", "a", "s", "e">>, <<"d", "r", "o", "p", " ", "s", "c", "h", "e", "m", "a", " ", "p", "u", "b", "l", "i", "c">>, <<"t", "r", "u", "n", "c", "a", "t", "e", " ", "a", "l", "l">>}
\* any(d in query_lower for d in dangerous)
is_dangerous(query) == \E d \in DANGEROUS : str_in(d, str_lower(query))

\* spellings of the destructive phrases: in lower case, in upper case, and
\* with the case of the first letters varied
DestructiveSpellings == UNION {CaseVariants(d) \cup {str_upper(d)} : d \in DANGEROUS}
\* statements around a phrase
SqlBefore == {<<>>, <<"s", "e", "l", "e", "c", "t", " ", "1", ";", " ">>}
SqlAfter == {<<>>, <<" ", "x">>}
DestructiveSql == {b \o d \o a : b \in SqlBefore, d \in DestructiveSpellings, a \in SqlAfter}
HarmlessSql == {<<>>, <<" ">>, <<"s", "e", "l", "e", "c", "t", " ", "1">>, <<"d", "r", "o", "p", " ", "t", "a", "b", "l", "e", " ", "x">>, <<"d", "r", "o", "p", " ", " ", "d", "a", "t", "a", "b", "a", "s", "e", " ", "x">>, <<"t", "r", "u", "n", "c", "a", "t", "e", " ", "x">>}
SqlInputs == Padded(DestructiveSql) \cup HarmlessSql

DbResult(success, error) == [success |-> success, error |-> error]
NoDbResult == DbResult(FALSE, "none")

DbInit ==
    /\ \E tool \in {"db_query", "db_execute"}, sql \in SqlInputs,
          database_url \in BOOLEAN, has_psycopg2 \in BOOLEAN :
            db = [pc |-> "call", tool |-> tool, sql |-> sql, database_url |-> database_url,
                  has_psycopg2 |-> has_psycopg2, result |-> NoDbResult, database |-> <<>>]
    /\ turso = NOT_RUNNING /\ setup = NOT_RUNNING /\ vibe = NOT_RUNNING
    /\ call = NO_CALL /\ api_reply = NoReply /\ outcome = Pending
    /\ server = NO_SERVER /\ pc = "none" /\ stdin = <<>> /\ line = 0 /\ stdout = <<>>

DbUnchanged == UNCHANGED <<call_vars, mcp_vars, turso, setup, vibe>>

\* the tool has returned
DbReturn(d, result) == [d EXCEPT !.pc = "done", !.result = result]
\* the statement is handed to the database, which accepts it or not
DbReceives(d, query, accepted) ==
    DbReturn([d EXCEPT !.database = Append(@, query)],
             IF accepted THEN DbResult(TRUE, "none") ELSE DbResult(FALSE, "database"))

\* execute_sql(query): get_connection raises without a URL or without psycopg2
execute_sql(d, query, accepted) ==
    IF ~d.database_url \/ ~d.has_psycopg2 THEN DbReturn(d, DbResult(FALSE, "connection"))
    ELSE DbReceives(d, query, accepted)

\* execute_sql_raw(query): psql is run with the query
execute_sql_raw(d, query, accepted) ==
    IF ~d.database_url THEN DbReturn(d, DbResult(FALSE, "connection"))
    ELSE DbReceives(d, query, accepted)

handle_db_query(d, accepted) ==
    IF str_strip(d.sql) = <<>> THEN DbReturn(d, DbResult(FALSE, "required"))
    ELSE IF is_dangerous(str_strip(d.sql)) THEN DbReturn(d, DbResult(FALSE, "blocked"))
    ELSE execute_sql(d, str_strip(d.sql), accepted)

handle_db_execute(d, accepted) ==
    IF str_strip(d.sql) = <<>> THEN DbReturn(d, DbResult(FALSE, "required"))
    ELSE execute_sql_raw(d, str_strip(d.sql), accepted)

HandleDbQuery ==
    /\ db.pc = "call" /\ db.tool = "db_query"
    /\ \E accepted \in BOOLEAN : db' = handle_db_query(db, accepted)
    /\ DbUnchanged

HandleDbExecute ==
    /\ db.pc = "call" /\ db.tool = "db_execute"
    /\ \E accepted \in BOOLEAN : db' = handle_db_execute(db, accepted)
    /\ DbUnchanged

DbNext ==
    \/ HandleDbQuery
    \/ HandleDbExecute

DbSpec == DbInit /\ [][DbNext]_vars

----------------------------------------------------------------------------
(* C28: destructive SQL *)

\* the SQL given to the tool contains one of the three phrases in some
\* letter case
IsDestructive(sql) ==
    \E d \in DANGEROUS : \E i \in 0..(Len(sql) - Len(d)) :
        str_lower(SubSeq(sql, i + 1, i + Len(d))) = d
DbDone == db.pc = "done"

\* C28 (db_query): SQL containing one of the three phrases given to db_query
\* is answered with an error result and is not handed to the database.
C28_QueryRejected ==
    (DbDone /\ db.tool = "db_query" /\ IsDestructive(db.sql)) =>
        ~db.result.success /\ db.database = <<>>

\* C28: SQL containing 'drop database', 'drop schema public' or 'truncate
\* all' in any letter case, given to db_query or db_execute, is answered with
\* an error result and is never handed to the database.
C28_DestructiveRejected ==
    (DbDone /\ IsDestructive(db.sql)) =>
        ~db.result.success /\ db.database = <<>>

----------------------------------------------------------------------------
(* ClaudeSetup of src/mcp/claude_setup.py.  setup is the state of one run: *)
(* the object's fields (config, dry_run, changes), the files and           *)
(* directories that exist under the target directory and under ~/.claude,  *)
(* and the calls made to functions that change the file system.            *)

\* number of commands of BUILTIN_COMMANDS the model keeps
MaxCommands == 1
BUILTIN_COMMANDS == SubSeq(<<"plan-feature", "focus", "note", "done", "review">>, 1, MaxCommands)

\* a path is its directory and its name
TARGET_DIR == "."
COMMANDS_DIR == ".claude/commands"
CLAUDE_HOME == "~/.claude"
CLAUDE_MD == <<TARGET_DIR, "CLAUDE.md">>
SCRATCHPAD_MD == <<TARGET_DIR, "SCRATCHPAD.md">>
PLAN_MD == <<TARGET_DIR, "plan.md">>
SETTINGS_JSON == <<CLAUDE_HOME, "settings.json">>
CommandPath(name) == <<COMMANDS_DIR, name>>
\* path.parent
Parent(path) == path[1]
\* path.with_suffix(f"{path.suffix}.{timestamp}.bak")
BackupPath(path) == Append(path, "bak")
CommandPaths == {CommandPath(BUILTIN_COMMANDS[k]) : k \in DOMAIN BUILTIN_COMMANDS}

FsCall(op, path) == [op |-> op, path |-> path]

SetupInit ==
    /\ \E arg_dry_run \in BOOLEAN, settings_dry_run \in BOOLEAN, backup_existing \in BOOLEAN,
          overwrite_claude_md \in BOOLEAN, create_scratchpad \in BOOLEAN, create_plan \in BOOLEAN,
          create_commands_dir \in BOOLEAN, mcp_servers \in BOOLEAN,
          hooks \in {"none", "some", "malformed"},
          project \in SUBSET {CLAUDE_MD, SCRATCHPAD_MD}, commands \in SUBSET CommandPaths,
          settings_json \in {"absent", "valid", "invalid"} :
            LET files == project \cup commands \cup (IF settings_json = "absent" THEN {} ELSE {SETTINGS_JSON})
                dirs == (IF commands = {} THEN {} ELSE {COMMANDS_DIR})
                            \cup (IF settings_json = "absent" THEN {} ELSE {CLAUDE_HOME})
            IN setup = [pc |-> "project_files",
                        arg_dry_run |-> arg_dry_run, settings_dry_run |-> settings_dry_run,
                        dry_run |-> arg_dry_run \/ settings_dry_run,
                        backup_existing |-> backup_existing, overwrite_claude_md |-> overwrite_claude_md,
                        create_scratchpad |-> create_scratchpad, create_plan |-> create_plan,
                        create_commands_dir |-> create_commands_dir,
                        mcp_servers |-> mcp_servers, hooks |-> hooks, settings_json |-> settings_json,
                        files |-> files, dirs |-> dirs, files0 |-> files, dirs0 |-> dirs,
                        fs_calls |-> <<>>, changes |-> <<>>]
    /\ turso = NOT_RUNNING /\ db = NOT_RUNNING /\ vibe = NOT_RUNNING
    /\ call = NO_CALL /\ api_reply = NoReply /\ outcome = Pending
    /\ server = NO_SERVER /\ pc = "none" /\ stdin = <<>> /\ line = 0 /\ stdout = <<>>

SetupUnchanged == UNCHANGED <<call_vars, mcp_vars, turso, db, vibe>>

backup_file(s, path) ==
    IF path \notin s.files THEN s
    ELSE IF ~s.backup_existing THEN s
    ELSE IF ~s.dry_run
    THEN [s EXCEPT !.files = @ \cup {BackupPath(path)},
                   !.fs_calls = Append(@, FsCall("copy2", path))]
    ELSE s

\* the file is written once it has been backed up
write_file_backed_up(s, path) ==
    IF s.dry_run THEN s
    ELSE [s EXCEPT !.dirs = @ \cup {Parent(path)},
                   !.files = @ \cup {path},
                   !.fs_calls = @ \o <<FsCall("mkdir", <<Parent(path)>>), FsCall("write_text", path)>>,
                   !.changes = Append(@, path)]

\* a write_file that writes in a dry run too
write_file_Always(s, path, backup) ==
    [s EXCEPT !.dirs = @ \cup {Parent(path)},
              !.files = @ \cup {path},
              !.fs_calls = @ \o <<FsCall("mkdir", <<Parent(path)>>), FsCall("write_text", path)>>,
              !.changes = Append(@, path)]

write_file(s, path, backup) ==
    write_file_backed_up(IF path \in s.files /\ backup THEN backup_file(s, path) ELSE s, path)

\* CLAUDE.md in setup_project_files
setup_claude_md(s) ==
    IF CLAUDE_MD \in s.files
    THEN IF s.overwrite_claude_md THEN write_file(s, CLAUDE_MD, TRUE) ELSE s
    ELSE write_file(s, CLAUDE_MD, FALSE)

\* SCRATCHPAD.md and plan.md in setup_project_files
setup_project_file(s, create, path) ==
    IF create /\ path \notin s.files THEN write_file(s, path, FALSE) ELSE s

SetupProjectFiles ==
    /\ setup.pc = "project_files"
    /\ setup' = [setup_project_file(
                    setup_project_file(setup_claude_md(setup), setup.create_scratchpad, SCRATCHPAD_MD),
                    setup.create_plan, PLAN_MD)
                 EXCEPT !.pc = "custom_commands"]
    /\ SetupUnchanged

\* the loop of setup_custom_commands from the command number k on
RECURSIVE setup_commands_from(_, _)
setup_commands_from(s, k) ==
    IF k > Len(BUILTIN_COMMANDS) THEN s
    ELSE setup_commands_from(
            IF CommandPath(BUILTIN_COMMANDS[k]) \in s.files THEN s
            ELSE write_file(s, CommandPath(BUILTIN_COMMANDS[k]), FALSE),
            k + 1)

setup_custom_commands(s) ==
    IF ~s.create_commands_dir THEN s
    ELSE setup_commands_from(
            IF ~s.dry_run
            THEN [s EXCEPT !.dirs = @ \cup {COMMANDS_DIR},
                           !.fs_calls = Append(@, FsCall("mkdir", <<COMMANDS_DIR>>))]
            ELSE s,
            1)

SetupCustomCommands ==
    /\ setup.pc = "custom_commands"
    /\ setup' = [setup_custom_commands(setup) EXCEPT !.pc = "mcp_servers"]
    /\ SetupUnchanged

\* the end of setup_mcp_servers and of setup_hooks: settings.json is written;
\* only setup_mcp_servers records the change
write_settings(s, record) ==
    IF s.dry_run THEN s
    ELSE [s EXCEPT !.dirs = @ \cup {CLAUDE_HOME},
                   !.files = @ \cup {SETTINGS_JSON},
                   !.settings_json = "valid",
                   !.fs_calls = @ \o <<FsCall("mkdir", <<CLAUDE_HOME>>), FsCall("write_text", SETTINGS_JSON)>>,
                   !.changes = IF record THEN Append(@, SETTINGS_JSON) ELSE @]

setup_mcp_servers(s) ==
    IF ~s.mcp_servers THEN s
    ELSE write_settings(IF s.settings_json = "valid" THEN backup_file(s, SETTINGS_JSON) ELSE s, TRUE)

SetupMcpServers ==
    /\ setup.pc = "mcp_servers"
    /\ setup' = [setup_mcp_servers(setup) EXCEPT !.pc = "hooks"]
    /\ SetupUnchanged

\* a hook without "matcher" or "command" raises KeyError before anything is
\* written
SetupHooks ==
    /\ setup.pc = "hooks"
    /\ setup' = CASE setup.hooks = "none" -> [setup EXCEPT !.pc = "summary"]
                  [] setup.hooks = "malformed" -> [setup EXCEPT !.pc = "raised"]
                  [] setup.hooks = "some" -> [write_settings(setup, FALSE) EXCEPT !.pc = "summary"]
    /\ SetupUnchanged

\* the summary of run and return 0
SetupSummary ==
    /\ setup.pc = "summary"
    /\ setup' = [setup EXCEPT !.pc = "done"]
    /\ SetupUnchanged

SetupNext ==
    \/ SetupProjectFiles
    \/ SetupCustomCommands
    \/ SetupMcpServers
    \/ SetupHooks
    \/ SetupSummary

SetupSpec == SetupInit /\ [][SetupNext]_vars

----------------------------------------------------------------------------
(* C29: a dry run changes nothing *)

\* C29: when --dry-run is given or settings.dry_run is set, at every point of
\* ClaudeSetup.run no function that changes the file system has been called,
\* the files and directories under the target directory and under ~/.claude
\* are those that existed at the start (none created, overwritten or backed
\* up), and the list of recorded changes is empty.
C29_DryRunChangesNothing ==
    (setup.pc # "none" /\ (setup.arg_dry_run \/ setup.settings_dry_run)) =>
        /\ setup.fs_calls = <<>>
        /\ setup.files = setup.files0
        /\ setup.dirs = setup.dirs0
        /\ setup.changes = <<>>

\* a finished dry run asked for by settings.dry_run alone, of a
\* configuration that overwrites an existing CLAUDE.md with backup, creates
\* the other files and the commands, and configures servers and hooks over a
\* valid settings.json
C29_Witness ==
    /\ setup.pc = "done"
    /\ ~setup.arg_dry_run /\ setup.settings_dry_run
    /\ setup.backup_existing /\ setup.overwrite_claude_md
    /\ setup.create_scratchpad /\ setup.create_plan /\ setup.create_commands_dir
    /\ setup.mcp_servers /\ setup.hooks = "some"
    /\ setup.files0 = {CLAUDE_MD, SETTINGS_JSON} /\ setup.settings_json = "valid"

----------------------------------------------------------------------------
(* vibe-check: src/vibe-check/vibe_check/cli.py with the configured        *)
(* commands of checkers/generic.py, and the older                          *)
(* src/tools/vibe-check/vibe_check/cli.py without configuration.  vibe is  *)
(* the state of one run: the command line, the configuration, the detected *)
(* stack, the checkers still to run, all_results and the exit code.        *)

\* longest list of configured commands of one section
MaxConfigured == 2
\* most results a FrontendChecker, BackendChecker or SecurityChecker returns
MaxChecks == 2
EXIT_NO_STACK == 2

\* how running a configured command ends: the working directory is missing,
\* the shell exits (127: command not found), the timeout expires, or
\* subprocess.run raises
CommandEnd(kind, returncode) == [kind |-> kind, returncode |-> returncode]
CommandEnds ==
    {CommandEnd("missing_dir", 0), CommandEnd("timeout", 0), CommandEnd("error", 0)}
        \cup {CommandEnd("exited", c) : c \in {0, 1, 127}}

RECURSIVE SeqsUpTo(_, _)
SeqsUpTo(S, n) ==
    IF n = 0 THEN {<<>>}
    ELSE SeqsUpTo(S, n - 1) \cup {Append(q, x) : q \in {p \in SeqsUpTo(S, n - 1) : Len(p) = n - 1}, x \in S}

CheckResult(checker, passed, end) == [checker |-> checker, passed |-> passed, end |-> end]
\* a result of a checker that is not GenericChecker
Detected(passed) == CheckResult("detected", passed, CommandEnd("none", 0))

\* GenericChecker._run_command for a command that ends with end
generic_run_command(end) ==
    CheckResult("generic",
        CASE end.kind = "missing_dir" -> FALSE
          [] end.kind = "exited" -> end.returncode = 0
          [] end.kind = "timeout" -> FALSE
          [] end.kind = "error" -> FALSE,
        end)

Checker(kind, commands) == [kind |-> kind, commands |-> commands]
\* GenericChecker(commands=...).run_all() when there are commands
GenericRun(commands) == IF commands = <<>> THEN <<>> ELSE <<Checker("generic", commands)>>
\* FrontendChecker, BackendChecker or SecurityChecker .run_all() when asked for
DetectedRun(wanted) == IF wanted THEN <<Checker("detected", <<>>)>> ELSE <<>>
\* SecurityChecker.check_secrets() when asked for
SecretsRun(wanted) == IF wanted THEN <<Checker("secrets", <<>>)>> ELSE <<>>

VibeCommands(variant) ==
    IF variant = "tools" THEN {"quality", "security", "all"} ELSE {"quality", "security", "test", "all"}

VibeInit ==
    /\ \E variant \in {"vibe-check", "tools"} :
       \E command \in VibeCommands(variant), no_config \in BOOLEAN, is_custom \in BOOLEAN,
          commands \in SeqsUpTo(CommandEnds, MaxConfigured),
          security_commands \in SeqsUpTo({CommandEnd("exited", 0), CommandEnd("exited", 1)}, 1),
          secrets_scan \in BOOLEAN,
          frontend \in {"None", "True", "False"}, backend \in {"None", "True", "False"},
          stack_frontend \in BOOLEAN, stack_backend \in BOOLEAN :
            /\ variant = "tools" => ~is_custom
            /\ command \notin {"quality", "all"} => ~no_config
            /\ variant = "tools" => ~no_config
            /\ ~is_custom => commands = <<>> /\ security_commands = <<>> /\ ~secrets_scan
            /\ command \notin {"security", "all"} => security_commands = <<>> /\ ~secrets_scan
            /\ command = "security" => commands = <<>>
            /\ command # "quality" => frontend = "None" /\ backend = "None"
            /\ vibe = [pc |-> "main", variant |-> variant, command |-> command,
                       no_config |-> no_config, is_custom |-> is_custom,
                       commands |-> commands, security_commands |-> security_commands,
                       secrets_scan |-> secrets_scan, frontend |-> frontend, backend |-> backend,
                       stack_frontend |-> stack_frontend, stack_backend |-> stack_backend,
                       todo |-> <<>>, all_results |-> <<>>, summary |-> FALSE,
                       exit_code |-> NullNumber]
    /\ turso = NOT_RUNNING /\ db = NOT_RUNNING /\ setup = NOT_RUNNING
    /\ call = NO_CALL /\ api_reply = NoReply /\ outcome = Pending
    /\ server = NO_SERVER /\ pc = "none" /\ stdin = <<>> /\ line = 0 /\ stdout = <<>>

VibeUnchanged == UNCHANGED <<call_vars, mcp_vars, turso, db, setup>>

VibeExit(v, code) == [v EXCEPT !.pc = "exit", !.exit_code = code]
\* the checkers a command runs before the summary
VibeRun(v, todo) == [v EXCEPT !.pc = "run", !.todo = todo]

\* get_config_or_detect unless --no-config: is_custom
UsesConfig(v) == v.is_custom /\ ~v.no_config

\* the auto-detection branch of quality_checks, and quality_checks of the
\* older cli.py
quality_checks_detect(v) ==
    IF ~(v.frontend # "False" /\ v.stack_frontend) /\ ~(v.backend # "False" /\ v.stack_backend)
    THEN VibeExit(v, EXIT_NO_STACK)
    ELSE VibeRun(v, DetectedRun(v.frontend # "False" /\ v.stack_frontend)
                        \o DetectedRun(v.backend # "False" /\ v.stack_backend))

quality_checks(v) ==
    IF UsesConfig(v) /\ v.commands # <<>> THEN VibeRun(v, GenericRun(v.commands))
    ELSE quality_checks_detect(v)

QualityChecks ==
    /\ vibe.pc = "main" /\ vibe.command = "quality"
    /\ vibe' = quality_checks(vibe)
    /\ VibeUnchanged

security_checks(v) ==
    VibeRun(v, (IF UsesConfig(v) THEN GenericRun(v.security_commands) ELSE <<>>)
                \o (IF ~UsesConfig(v) THEN DetectedRun(TRUE) ELSE SecretsRun(v.secrets_scan)))

SecurityChecks ==
    /\ vibe.pc = "main" /\ vibe.command = "security"
    /\ vibe' = security_checks(vibe)
    /\ VibeUnchanged

test_checks(v) ==
    IF UsesConfig(v) /\ v.commands # <<>> THEN VibeRun(v, GenericRun(v.commands))
    ELSE VibeExit(v, EXIT_NO_STACK)

TestChecks ==
    /\ vibe.pc = "main" /\ vibe.command = "test"
    /\ vibe' = test_checks(vibe)
    /\ VibeUnchanged

all_checks(v) ==
    IF UsesConfig(v)
    THEN VibeRun(v, GenericRun(v.commands) \o GenericRun(v.security_commands) \o SecretsRun(v.secrets_scan))
    ELSE VibeRun(v, DetectedRun(v.stack_frontend) \o DetectedRun(v.stack_backend) \o DetectedRun(TRUE))

AllChecks ==
    /\ vibe.pc = "main" /\ vibe.command = "all"
    /\ vibe' = all_checks(vibe)
    /\ VibeUnchanged

\* one round of the loop of GenericChecker.run_all
GenericRunCommand ==
    /\ vibe.pc = "run" /\ vibe.todo # <<>> /\ Head(vibe.todo).kind = "generic"
    /\ vibe' = [vibe EXCEPT
                    !.all_results = Append(@, generic_run_command(Head(Head(vibe.todo).commands))),
                    !.todo = IF Len(Head(@).commands) = 1 THEN Tail(@)
                             ELSE <<Checker("generic", Tail(Head(@).commands))>> \o Tail(@)]
    /\ VibeUnchanged

\* run_all of a FrontendChecker, BackendChecker or SecurityChecker: any
\* results
DetectedRunAll ==
    /\ vibe.pc = "run" /\ vibe.todo # <<>> /\ Head(vibe.todo).kind = "detected"
    /\ \E passed \in SeqsUpTo(BOOLEAN, MaxChecks) :
        vibe' = [vibe EXCEPT
                    !.all_results = @ \o [k \in DOMAIN passed |-> Detected(passed[k])],
                    !.todo = Tail(@)]
    /\ VibeUnchanged

\* security.check_secrets(): one result
SecretsScan ==
    /\ vibe.pc = "run" /\ vibe.todo # <<>> /\ Head(vibe.todo).kind = "secrets"
    /\ \E passed \in BOOLEAN :
        vibe' = [vibe EXCEPT !.all_results = Append(@, Detected(passed)), !.todo = Tail(@)]
    /\ VibeUnchanged

\* failed = sum(1 for r in results if not r.passed)
FailedCount(results) == Cardinality({k \in DOMAIN results : ~results[k].passed})

\* a summary that exits 0 whatever failed
print_summary_AlwaysZero(v) == [VibeExit(v, 0) EXCEPT !.summary = TRUE]

print_summary(v) ==
    [VibeExit(v, IF FailedCount(v.all_results) = 0 THEN 0 ELSE EXIT_FAILURE) EXCEPT !.summary = TRUE]

PrintSummary ==
    /\ vibe.pc = "run" /\ vibe.todo = <<>>
    /\ vibe' = print_summary(vibe)
    /\ VibeUnchanged

VibeNext ==
    \/ QualityChecks
    \/ SecurityChecks
    \/ TestChecks
    \/ AllChecks
    \/ GenericRunCommand
    \/ DetectedRunAll
    \/ SecretsScan
    \/ PrintSummary

VibeSpec == VibeInit /\ [][VibeNext]_vars

----------------------------------------------------------------------------
(* C30: the exit code of vibe-check *)

\* the run has printed its summary and exited
SummaryReached == vibe.pc = "exit" /\ vibe.summary
AllPassed == \A k \in DOMAIN vibe.all_results : vibe.all_results[k].passed
\* a configured command that timed out, was not found by the shell, or whose
\* working directory is missing
EndedBadly(end) ==
    end.kind \in {"timeout", "missing_dir"} \/ (end.kind = "exited" /\ end.returncode = 127)
\* a quality run with no stack detected and no configured command
QualityWithNothingToRun ==
    /\ vibe.pc # "none" /\ vibe.command = "quality"
    /\ ~vibe.stack_frontend /\ ~vibe.stack_backend
    /\ vibe.commands = <<>>

====
